---- MODULE Spec2Model ----
(***************************************************************************)
(* Text analytics and trend detection of the disaster-response sentiment   *)
(* analyzer: sentiment scoring (src/sentiment_analyzer.py), impact         *)
(* classification (src/sentiment_analyzer.py) and emerging-topic detection *)
(* (src/trend_analyzer.py); the tweet store (src/database.py), the session *)
(* of the dashboard (src/app.py) and keyword search (src/twitter_api.py).  *)
(*                                                                         *)
(* Every public function is a pure function of its arguments and of the    *)
(* environment it reads (the analyzer global, the tokenizer data, the      *)
(* clock).  Init draws a pending call, its arguments and the environment   *)
(* from bounded sets; the function's action runs it and records in ret     *)
(* the value returned and in aux what the call observed on the way.        *)
(* Python strings are TLA+ strings; Len, \o and SubSeq act on them.        *)
(***************************************************************************)
EXTENDS Integers, Sequences, FiniteSets, TLC

VARIABLES
    sid,    \* module global sid: TRUE = SentimentIntensityAnalyzer built, FALSE = None
    punkt,  \* TRUE = the tokenizer data nltk.word_tokenize needs is installed
    now,    \* the wall clock pd.Timestamp.now() reads
    lib,    \* what the sentiment libraries answer for the text of the call
    op,     \* name of the function called
    args,   \* its arguments
    pc,     \* "call" before the function has run, "done" after
    ret,    \* [raised, value]: whether the call raised, and the value it returned
    aux,    \* what the call observed internally
    prev,   \* [called, ret]: what an earlier invocation of the same call ended with
    store,  \* table tweets of the database: committed rows in insertion order
    session, \* st.session_state: [tweets_df, selected_disaster_type, last_refresh]
    uuids   \* number of ids the mock generator has issued

vars == <<sid, punkt, now, lib, op, args, pc, ret, aux, prev, store, session,
          uuids>>
env == <<sid, punkt, now, lib, op, args, prev, store, session, uuids>>

Pending == [raised |-> FALSE, value |-> <<>>]
Return(value) == [raised |-> FALSE, value |-> value]
\* The call ended with an exception.
Raised == [raised |-> TRUE, value |-> <<>>]

\* Before the call: nothing returned, nothing observed.
NoPrev == [called |-> FALSE, ret |-> Pending]
\* st.session_state as the first run of the dashboard script initializes it.
NewSession ==
    [tweets_df |-> <<>>, selected_disaster_type |-> "All", last_refresh |-> FALSE]
Start ==
    /\ pc = "call"
    /\ ret = Pending
    /\ aux = <<>>
    /\ prev = NoPrev
    /\ store = <<>>
    /\ session = NewSession
    /\ uuids = 0

\* Python's None where a string is expected (no text of the model equals it).
None == "<None>"

\* "if not text": None and the empty string are falsy.
Falsy(text) == text = None \/ text = ""

Abs(x) == IF x < 0 THEN -x ELSE x

(***************************************************************************)
(* Strings                                                                 *)
(***************************************************************************)
UpperCase == "ABCDEFGHIJKLMNOPQRSTUVWXYZ"
LowerCase == "abcdefghijklmnopqrstuvwxyz"

\* The character at position i of s, as a string of length 1.
Char(s, i) == SubSeq(s, i, i)

LowerChar(c) ==
    IF \E i \in 1..Len(UpperCase) : Char(UpperCase, i) = c
    THEN Char(LowerCase, CHOOSE i \in 1..Len(UpperCase) : Char(UpperCase, i) = c)
    ELSE c

RECURSIVE lower(_)
\* str.lower(), by halves
lower(s) ==
    IF Len(s) <= 1 THEN LowerChar(s)
    ELSE LET mid == Len(s) \div 2
         IN  lower(SubSeq(s, 1, mid)) \o lower(SubSeq(s, mid + 1, Len(s)))

\* Python's "kw in s" on strings: substring containment.
Contains(kw, s) ==
    \E i \in 1..(Len(s) - Len(kw) + 1) : SubSeq(s, i, i + Len(kw) - 1) = kw

(***************************************************************************)
(* Sentiment scoring.  Scores are fixed-point numbers in units of 0.005;   *)
(* the sub-scorers' raw values are the multiples of 0.01 in [-1, 1], so    *)
(* that the mean of two raw values is exact.                               *)
(***************************************************************************)
One == 200                  \* 1.0
VADER_THRESHOLD == 10       \* 0.05
TEXTBLOB_THRESHOLD == 20    \* 0.1

RawScores == {x \in (-One)..One : x % 2 = 0}

\* A sub-scorer library call either returns a raw value or raises.
Raise == One + 1
\* Marks a library call that the invocation did not make.
NotCalled == One + 2
LibOutcomes == RawScores \cup {Raise}

Methods == {"vader", "textblob", "combined"}

\* aux entry of a sub-scorer the call did not run.
NoResult == <<"", 0>>

textblob_sentiment(t) ==
    IF t = Raise THEN <<"neutral", 0>>
    ELSE IF t > TEXTBLOB_THRESHOLD THEN <<"positive", t>>
    ELSE IF t < -TEXTBLOB_THRESHOLD THEN <<"negative", t>>
    ELSE <<"neutral", t>>

\* Mutant: without analyzer the lexicon scorer answers neutral instead of
\* delegating.
vader_sentiment_no_delegation(v, t) ==
    IF ~sid THEN <<"neutral", 0>>
    ELSE IF v = Raise THEN <<"neutral", 0>>
    ELSE IF v >= VADER_THRESHOLD THEN <<"positive", v>>
    ELSE IF v <= -VADER_THRESHOLD THEN <<"negative", v>>
    ELSE <<"neutral", v>>

\* Mutant: a failing lexicon call is answered by the secondary scorer.
vader_sentiment_failure_delegates(v, t) ==
    IF ~sid THEN textblob_sentiment(t)
    ELSE IF v = Raise THEN textblob_sentiment(t)
    ELSE IF v >= VADER_THRESHOLD THEN <<"positive", v>>
    ELSE IF v <= -VADER_THRESHOLD THEN <<"negative", v>>
    ELSE <<"neutral", v>>

vader_sentiment(v, t) ==
    IF ~sid THEN textblob_sentiment(t)
    ELSE IF v = Raise THEN <<"neutral", 0>>
    ELSE IF v >= VADER_THRESHOLD THEN <<"positive", v>>
    ELSE IF v <= -VADER_THRESHOLD THEN <<"negative", v>>
    ELSE <<"neutral", v>>

\* Mutant: the weaker signal wins a disagreement.
combined_sentiment_weaker(v, t) ==
    LET vader == vader_sentiment(v, t)
        textblob == textblob_sentiment(t)
    IN  IF vader[1] = textblob[1]
        THEN <<vader[1], (vader[2] + textblob[2]) \div 2>>
        ELSE IF Abs(vader[2]) < Abs(textblob[2]) THEN vader
        ELSE textblob

\* Mutant: on agreement the lexicon value is returned un-averaged.
combined_sentiment_no_mean(v, t) ==
    LET vader == vader_sentiment(v, t)
        textblob == textblob_sentiment(t)
    IN  IF vader[1] = textblob[1]
        THEN vader
        ELSE IF Abs(vader[2]) > Abs(textblob[2]) THEN vader
        ELSE textblob

\* Mutant: on a disagreement won by the secondary scorer, its label is paired
\* with the lexicon value.
combined_sentiment_mixed(v, t) ==
    LET vader == vader_sentiment(v, t)
        textblob == textblob_sentiment(t)
    IN  IF vader[1] = textblob[1]
        THEN <<vader[1], (vader[2] + textblob[2]) \div 2>>
        ELSE IF Abs(vader[2]) > Abs(textblob[2]) THEN vader
        ELSE <<textblob[1], vader[2]>>

\* Mutant: on equal magnitudes the lexicon scorer wins.
combined_sentiment_tie_lexicon(v, t) ==
    LET vader == vader_sentiment(v, t)
        textblob == textblob_sentiment(t)
    IN  IF vader[1] = textblob[1]
        THEN <<vader[1], (vader[2] + textblob[2]) \div 2>>
        ELSE IF Abs(vader[2]) >= Abs(textblob[2]) THEN vader
        ELSE textblob

combined_sentiment(v, t) ==
    LET vader == vader_sentiment(v, t)
        textblob == textblob_sentiment(t)
    IN  IF vader[1] = textblob[1]
        THEN <<vader[1], (vader[2] + textblob[2]) \div 2>>
        ELSE IF Abs(vader[2]) > Abs(textblob[2]) THEN vader
        ELSE textblob

\* Mutant: no early return for empty text.
analyze_sentiment_no_guard(text, method, v, t) ==
    IF method = "vader" THEN vader_sentiment(v, t)
    ELSE IF method = "textblob" THEN textblob_sentiment(t)
    ELSE combined_sentiment(v, t)

analyze_sentiment(text, method, v, t) ==
    IF Falsy(text) THEN <<"neutral", 0>>
    ELSE IF method = "vader" THEN vader_sentiment(v, t)
    ELSE IF method = "textblob" THEN textblob_sentiment(t)
    ELSE combined_sentiment(v, t)

\* Which library calls an invocation makes.
VaderCalled(text, method) ==
    ~Falsy(text) /\ method # "textblob" /\ sid
TextBlobCalled(text, method) ==
    ~Falsy(text) /\ (method # "vader" \/ ~sid)

SentimentTexts == {None, "", "Severe flood warning issued #flood #NDRF, evacuation underway"}

SentimentInit ==
    /\ Start
    /\ sid \in BOOLEAN
    /\ punkt = TRUE
    /\ now = 0
    /\ op = "analyze_sentiment"
    /\ args \in [text : SentimentTexts, method : Methods]
    /\ lib \in [vader : LibOutcomes \cup {NotCalled}, textblob : LibOutcomes \cup {NotCalled}]
    /\ (lib.vader = NotCalled) <=> ~VaderCalled(args.text, args.method)
    /\ (lib.textblob = NotCalled) <=> ~TextBlobCalled(args.text, args.method)

AnalyzeSentiment ==
    /\ op = "analyze_sentiment"
    /\ pc = "call"
    /\ pc' = "done"
    /\ aux' = [vader |-> IF ~Falsy(args.text) /\ args.method # "textblob"
                         THEN vader_sentiment(lib.vader, lib.textblob) ELSE NoResult,
               textblob |-> IF TextBlobCalled(args.text, args.method)
                            THEN textblob_sentiment(lib.textblob) ELSE NoResult]
    /\ ret' = Return(analyze_sentiment(args.text, args.method, lib.vader, lib.textblob))
    /\ UNCHANGED env

(***************************************************************************)
(* Impact classification                                                   *)
(***************************************************************************)
severe_keywords == <<
    "catastrophic", "devastat", "fatal", "death", "killed", "casualties",
    "destroyed", "emergency", "evacuat", "crisis", "danger", "severe",
    "tragedy", "disaster", "critical", "massive">>

moderate_keywords == <<
    "damage", "injured", "wound", "affected", "impact", "hit", "threat",
    "loss", "moderate", "concern", "worried", "warning">>

minor_keywords == <<
    "minor", "small", "limited", "contained", "controlled", "restored",
    "recovery", "stable", "manageable", "relief">>

\* sum(1 for keyword in keywords if keyword in text_lower)
KeywordCount(keywords, text_lower) ==
    Cardinality({k \in 1..Len(keywords) : Contains(keywords[k], text_lower)})

\* Mutant: the tier with the most matching keywords wins (a vote).
analyze_disaster_impact_vote(text) ==
    LET text_lower == lower(text)
        severe_count == KeywordCount(severe_keywords, text_lower)
        moderate_count == KeywordCount(moderate_keywords, text_lower)
        minor_count == KeywordCount(minor_keywords, text_lower)
    IN  IF severe_count > 0 /\ severe_count >= moderate_count /\ severe_count >= minor_count
        THEN "severe"
        ELSE IF moderate_count > 0 /\ moderate_count >= minor_count THEN "moderate"
        ELSE IF minor_count > 0 THEN "minor"
        ELSE "unknown"

analyze_disaster_impact(text) ==
    LET text_lower == lower(text)
        severe_count == KeywordCount(severe_keywords, text_lower)
        moderate_count == KeywordCount(moderate_keywords, text_lower)
        minor_count == KeywordCount(minor_keywords, text_lower)
    IN  IF severe_count > 0 THEN "severe"
        ELSE IF moderate_count > 0 THEN "moderate"
        ELSE IF minor_count > 0 THEN "minor"
        ELSE "unknown"

\* Texts are built from at most MaxFragments pieces; "mi" and "nor " join to a
\* keyword across pieces, "white " holds the keyword "hit" inside a word.
MaxFragments == 3
ImpactFragments == {"SEVERE ", "evacuated ", "Damage ", "white ", "Relief ",
                    "pleasant ", "mi", "nor "}

RECURSIVE Join(_)
Join(fs) == IF fs = <<>> THEN "" ELSE Head(fs) \o Join(Tail(fs))

ImpactTexts ==
    {Join(fs) : fs \in UNION {[1..n -> ImpactFragments] : n \in 0..MaxFragments}}

ImpactInit ==
    /\ Start
    /\ sid = TRUE
    /\ punkt = TRUE
    /\ now = 0
    /\ lib = [vader |-> NotCalled, textblob |-> NotCalled]
    /\ op = "analyze_disaster_impact"
    /\ args \in [text : ImpactTexts]

AnalyzeDisasterImpact ==
    /\ op = "analyze_disaster_impact"
    /\ pc = "call"
    /\ pc' = "done"
    /\ aux' = <<>>
    /\ ret' = IF args.text = None THEN Raised      \* None has no lower()
              ELSE Return(analyze_disaster_impact(args.text))
    /\ UNCHANGED env

(***************************************************************************)
(* Text normalizers.  The regular expressions are modelled on texts of     *)
(* ASCII letters, digits, punctuation, blanks and tabs.                    *)
(***************************************************************************)
WordChars == LowerCase \o UpperCase \o "0123456789_"

\* \w
IsWordChar(c) == \E i \in 1..Len(WordChars) : Char(WordChars, i) = c

\* \s
IsSpace(c) == c = " " \/ c = "\t"

\* s has the literal p at position i.
StartsAt(s, i, p) == i + Len(p) - 1 <= Len(s) /\ SubSeq(s, i, i + Len(p) - 1) = p

RECURSIVE KeepRange(_, _, _, _)
\* The characters of s[lo..hi] whose positions are not in dropped, by halves.
KeepRange(s, dropped, lo, hi) ==
    IF lo > hi THEN ""
    ELSE IF lo = hi THEN (IF lo \in dropped THEN "" ELSE Char(s, lo))
    ELSE LET mid == (lo + hi) \div 2
         IN  KeepRange(s, dropped, lo, mid) \o KeepRange(s, dropped, mid + 1, hi)

\* re.sub(pattern, '', s), given the positions the matches of pattern cover.
Remove(s, dropped) == KeepRange(s, dropped, 1, Len(s))

\* https?://\S+|www\.\S+ matches at position i: the length of the literal
\* part when a character that is no whitespace follows it, otherwise 0.
UrlPrefix(s, i) ==
    LET n == IF StartsAt(s, i, "http://") THEN 7
             ELSE IF StartsAt(s, i, "https://") THEN 8
             ELSE IF StartsAt(s, i, "www.") THEN 4
             ELSE 0
    IN  IF n > 0 /\ i + n <= Len(s) /\ ~IsSpace(Char(s, i + n)) THEN n ELSE 0

\* re.sub(r'https?://\S+|www\.\S+', '', s): a match runs to the end of the
\* run of non-whitespace it starts in, so the matches cover every position
\* that follows a match start within its run.
remove_urls(s) ==
    LET starts == {j \in 1..Len(s) : UrlPrefix(s, j) > 0}
    IN  Remove(s, {p \in 1..Len(s) :
                     \E j \in starts : j <= p /\ \A k \in j..p : ~IsSpace(Char(s, k))})

\* re.sub(r'@\w+', '', s) and re.sub(r'#\w+', '', s): the marker and the run
\* of word characters behind it.
remove_marked(s, marker) ==
    LET starts == {j \in 1..(Len(s) - 1) :
                     Char(s, j) = marker /\ IsWordChar(Char(s, j + 1))}
    IN  Remove(s, {p \in 1..Len(s) :
                     \E j \in starts : j <= p /\ \A k \in (j + 1)..p : IsWordChar(Char(s, k))})

\* re.sub(r'^rt\s+', '', s)
remove_rt(s) ==
    IF StartsAt(s, 1, "rt") /\ Len(s) >= 3 /\ IsSpace(Char(s, 3))
    THEN Remove(s, {p \in 1..Len(s) : p <= 2 \/ \A k \in 3..p : IsSpace(Char(s, k))})
    ELSE s

RECURSIVE CollapseRange(_, _, _)
CollapseRange(s, lo, hi) ==
    IF lo > hi THEN ""
    ELSE IF lo = hi
    THEN (IF ~IsSpace(Char(s, lo)) THEN Char(s, lo)
          ELSE IF lo > 1 /\ IsSpace(Char(s, lo - 1)) THEN ""
          ELSE " ")
    ELSE LET mid == (lo + hi) \div 2
         IN  CollapseRange(s, lo, mid) \o CollapseRange(s, mid + 1, hi)

\* re.sub(r'\s+', ' ', s): one blank for every run of whitespace.
collapse_whitespace(s) == CollapseRange(s, 1, Len(s))

\* str.strip()
strip(s) ==
    Remove(s, {p \in 1..Len(s) : \/ \A k \in 1..p : IsSpace(Char(s, k))
                                 \/ \A k \in p..Len(s) : IsSpace(Char(s, k))})

\* re.sub(r'[^\w\s]', '', s)
remove_special(s) ==
    Remove(s, {p \in 1..Len(s) : ~IsWordChar(Char(s, p)) /\ ~IsSpace(Char(s, p))})

\* data_processor.clean_text
clean_text(text) ==
    strip(collapse_whitespace(remove_rt(
        remove_marked(remove_marked(remove_urls(lower(text)), "@"), "#"))))

\* sentiment_analyzer.clean_tweet: the same steps, then the special
\* characters are removed from the collapsed and stripped text.
clean_tweet(tweet_text) ==
    remove_special(strip(collapse_whitespace(remove_rt(
        remove_marked(remove_marked(remove_urls(lower(tweet_text)), "@"), "#")))))

MaxPieces == 3
NormalizePieces ==
    {"RT ", "@Ravi ", "#Flood", "https://t.co/a1 ", "www", ".in", "Rain", "\t ", " - "}
NormalizeTexts ==
    {Join(ps) : ps \in UNION {[1..n -> NormalizePieces] : n \in 0..MaxPieces}}

NormalizeInit ==
    /\ Start
    /\ sid = TRUE
    /\ punkt = TRUE
    /\ now = 0
    /\ lib = [vader |-> NotCalled, textblob |-> NotCalled]
    /\ op \in {"clean_text", "clean_tweet"}
    /\ args \in [text : NormalizeTexts]

\* clean_text(text); aux.again is clean_text of the returned string.
CleanText ==
    /\ op = "clean_text"
    /\ pc = "call"
    /\ pc' = "done"
    /\ IF args.text = None                         \* None has no lower()
       THEN ret' = Raised /\ aux' = <<>>
       ELSE LET out == clean_text(args.text)
            IN  /\ ret' = Return(out)
                /\ aux' = [again |-> clean_text(out)]
    /\ UNCHANGED env

\* clean_tweet(text); aux.again is clean_tweet of the returned string.
CleanTweet ==
    /\ op = "clean_tweet"
    /\ pc = "call"
    /\ pc' = "done"
    /\ IF args.text = None                         \* None has no lower()
       THEN ret' = Raised /\ aux' = <<>>
       ELSE LET out == clean_tweet(args.text)
            IN  /\ ret' = Return(out)
                /\ aux' = [again |-> clean_tweet(out)]
    /\ UNCHANGED env

\* One message text handed to one of the per-message operations: a missing
\* text, the empty text, or one piece of text.
MessageTexts == {None, ""} \cup NormalizePieces
MessageLibOutcomes == {Raise, -One, 0, One}

MessageInit ==
    /\ Start
    /\ punkt = TRUE
    /\ now = 0
    /\ \/ /\ op = "analyze_sentiment"
          /\ sid \in BOOLEAN
          /\ args \in [text : MessageTexts, method : Methods]
          /\ lib \in [vader : MessageLibOutcomes \cup {NotCalled},
                      textblob : MessageLibOutcomes \cup {NotCalled}]
          /\ (lib.vader = NotCalled) <=> ~VaderCalled(args.text, args.method)
          /\ (lib.textblob = NotCalled) <=> ~TextBlobCalled(args.text, args.method)
       \/ /\ op \in {"analyze_disaster_impact", "clean_text", "clean_tweet"}
          /\ sid = TRUE
          /\ args \in [text : MessageTexts]
          /\ lib = [vader |-> NotCalled, textblob |-> NotCalled]

(***************************************************************************)
(* Term extraction.  A DataFrame is [columns, rows]; a row carries the     *)
(* message text, its normalized form clean_text (each read when the frame  *)
(* has the column of that name) and its created_at stamp in seconds.       *)
(***************************************************************************)
\* A missing text cell (None / NaN), dropped by dropna().
NaN == None
\* A text cell that holds a number instead of a string: .lower() raises on it.
NonString == "<float>"
\* pandas' missing timestamp: every comparison with it is False.
NaT == -1

IsLetter(c) ==
    \E i \in 1..Len(LowerCase) : Char(LowerCase, i) = c \/ Char(UpperCase, i) = c

\* str.isalpha()
isalpha(word) == word # "" /\ \A i \in 1..Len(word) : IsLetter(Char(word, i))

\* The n-th smallest element of a set of numbers.
NthSmallest(S, n) == CHOOSE i \in S : Cardinality({j \in S : j < i}) = n - 1

\* The first position from i on where s has a blank (blank = TRUE) or a
\* character that is no blank (blank = FALSE); Len(s) + 1 when there is none.
FirstAt(s, i, blank) ==
    CHOOSE j \in i..(Len(s) + 1) :
        /\ j = Len(s) + 1 \/ (Char(s, j) = " ") = blank
        /\ \A k \in i..(j - 1) : (Char(s, k) = " ") # blank

RECURSIVE WordsFrom(_, _)
WordsFrom(s, i) ==
    LET start == FirstAt(s, i, FALSE)
        stop == FirstAt(s, start, TRUE)
    IN  IF start > Len(s) THEN <<>>
        ELSE <<SubSeq(s, start, stop - 1)>> \o WordsFrom(s, stop)

\* nltk.word_tokenize on a text of letters, digits and blanks: the words
\* between the blanks, in order.
word_tokenize(s) == WordsFrom(s, 1)

stopwords == {
    "a", "an", "the", "and", "but", "or", "for", "nor", "on", "at", "to", "by",
    "is", "are", "was", "were", "be", "been", "being", "in", "that", "this",
    "these", "those", "it", "its", "rt", "via", "i", "you", "he", "she", "we",
    "they", "me", "him", "her", "us", "them", "my", "your", "his", "our", "their",
    "from", "with", "as", "of", "have", "has", "had", "do", "does", "did",
    "just", "more", "most", "some", "such", "no", "not", "only", "than",
    "then", "so", "very", "can", "will", "would", "should", "now", "about",
    "amp", "http", "https", "co", "t.co"}

\* The filtered words of one text.
filtered_words(text) ==
    LET words == word_tokenize(lower(text))
        Keep(word) == isalpha(word) /\ word \notin stopwords /\ Len(word) > 2
    IN  SelectSeq(words, Keep)

\* Series.dropna()
DropNa(cells) == SelectSeq(cells, LAMBDA cell : cell # NaN)

RECURSIVE Flatten(_)
Flatten(seqs) == IF seqs = <<>> THEN <<>> ELSE Head(seqs) \o Flatten(Tail(seqs))

\* extract_terms(df): [raised, terms].  It raises when a text is not a string
\* or when the tokenizer data is missing at the first text it tokenizes.
extract_terms(df) ==
    LET text_col == IF "clean_text" \in df.columns THEN "clean_text" ELSE "text"
        texts == DropNa([k \in 1..Len(df.rows) |-> df.rows[k][text_col]])
    IN  IF text_col \notin df.columns THEN [raised |-> FALSE, terms |-> <<>>]
        ELSE IF \E k \in 1..Len(texts) : texts[k] = NonString \/ ~punkt
        THEN [raised |-> TRUE, terms |-> <<>>]
        ELSE [raised |-> FALSE,
              terms |-> Flatten([k \in 1..Len(texts) |-> filtered_words(texts[k])])]

(***************************************************************************)
(* Counter and sorting.  Scores are exact rationals [num, den], den > 0.   *)
(***************************************************************************)
Rat(num, den) == [num |-> num, den |-> den]
RLess(a, b) == a.num * b.den < b.num * a.den

Occurrences(seq, x) == Cardinality({k \in 1..Len(seq) : seq[k] = x})

\* Counter(seq): the distinct elements in first-seen order, each with its count.
Counter(seq) ==
    LET firsts == {k \in 1..Len(seq) : \A j \in 1..(k - 1) : seq[j] # seq[k]}
        keys == [n \in 1..Cardinality(firsts) |-> seq[NthSmallest(firsts, n)]]
    IN  [k \in 1..Len(keys) |-> [term |-> keys[k], count |-> Occurrences(seq, keys[k])]]

\* Inserts item behind every element whose key is not smaller than its own.
RECURSIVE InsertDesc(_, _)
InsertDesc(item, sorted) ==
    IF sorted = <<>> THEN <<item>>
    ELSE IF RLess(Head(sorted).key, item.key) THEN <<item>> \o sorted
    ELSE <<Head(sorted)>> \o InsertDesc(item, Tail(sorted))

RECURSIVE SortFrom(_, _, _)
SortFrom(items, k, sorted) ==
    IF k > Len(items) THEN sorted
    ELSE SortFrom(items, k + 1, InsertDesc(items[k], sorted))

\* sorted(items, key=..., reverse=True) on [key, item] pairs: descending and
\* stable (equal keys keep their order).
StableSortDesc(keyed) ==
    LET sorted == SortFrom(keyed, 1, <<>>)
    IN  [k \in 1..Len(sorted) |-> sorted[k].item]

Prefix(seq, n) == SubSeq(seq, 1, IF Len(seq) < n THEN Len(seq) ELSE n)

\* Counter.most_common(n)
most_common(counter, n) ==
    Prefix(StableSortDesc([k \in 1..Len(counter) |->
               [key |-> Rat(counter[k].count, 1), item |-> counter[k]]]), n)

(***************************************************************************)
(* Emerging-topic detection                                                *)
(***************************************************************************)
TIME_WINDOW == 3600     \* default time_window, seconds
TOP_TOPICS == 10        \* emerging_topics[:10], most_common(10)
MIN_COUNT == 3          \* recent_count >= 3
MIN_CHANGE == Rat(1, 2) \* change_rate > 0.5

\* df.empty
IsEmpty(df) == df.rows = <<>> \/ df.columns = {}

\* df[df['created_at'] >= window_start]
RecentTweets(df, window_start) ==
    LET InWindow(row) == row.created_at # NaT /\ row.created_at >= window_start
    IN  [df EXCEPT !.rows = SelectSeq(df.rows, InWindow)]

\* df[df['created_at'] < window_start]
OlderTweets(df, window_start) ==
    LET Before(row) == row.created_at # NaT /\ row.created_at < window_start
    IN  [df EXCEPT !.rows = SelectSeq(df.rows, Before)]

\* The early return of detect_emerging_topics.
\* Mutant: the guard as the documentation intends it.
emerging_guard_text_required(df) ==
    IsEmpty(df) \/ "created_at" \notin df.columns \/ "text" \notin df.columns

emerging_guard(df) ==
    IsEmpty(df) \/ "created_at" \notin df.columns \/ "text" \in df.columns

\* (recent_freq - older_freq) / older_freq with recent_freq = recent_count / n_recent
\* and older_freq = older_count / n_older, as an exact fraction.
change_rate(recent_count, older_count, n_recent, n_older) ==
    IF older_count = 0 THEN Rat(1, 1)
    ELSE IF older_count * n_recent > 0
    THEN Rat(recent_count * n_older - older_count * n_recent, older_count * n_recent)
    ELSE Rat(1, 1)

\* Mutant: two occurrences are enough.
significant_increase_two(rate, recent_count) ==
    RLess(MIN_CHANGE, rate) /\ recent_count >= MIN_COUNT - 1

significant_increase(rate, recent_count) ==
    RLess(MIN_CHANGE, rate) /\ recent_count >= MIN_COUNT

\* Mutant: the topics are cut to ten without sorting.
top_emerging_unsorted(emerging_topics) == Prefix(emerging_topics, TOP_TOPICS)

\* emerging_topics.sort(key=score, reverse=True); emerging_topics[:10]
top_emerging(emerging_topics) ==
    Prefix(StableSortDesc([k \in 1..Len(emerging_topics) |->
               [key |-> emerging_topics[k].score, item |-> emerging_topics[k]]]),
           TOP_TOPICS)

Topic(term, score, count) == [term |-> term, score |-> score, count |-> count]
Outcome(raised, value, path) == [raised |-> raised, value |-> value, path |-> path]

\* The body of the try block.
emerging_body(df, time_window) ==
    LET window_start == now - time_window
        recent_tweets == RecentTweets(df, window_start)
        older_tweets == OlderTweets(df, window_start)
        recent == extract_terms(recent_tweets)
        older == extract_terms(older_tweets)
        recent_term_counts == Counter(recent.terms)
        n_recent == Len(recent_tweets.rows)
        n_older == Len(older_tweets.rows)
        Rate(k) == change_rate(recent_term_counts[k].count,
                               Occurrences(older.terms, recent_term_counts[k].term),
                               n_recent, n_older)
        Emerging(k) == significant_increase(Rate(k), recent_term_counts[k].count)
        kept == SelectSeq([k \in 1..Len(recent_term_counts) |-> k], Emerging)
        emerging_topics ==
            [j \in 1..Len(kept) |->
                Topic(recent_term_counts[kept[j]].term, Rate(kept[j]),
                      recent_term_counts[kept[j]].count)]
        top_terms == most_common(recent_term_counts, TOP_TOPICS)
    IN  IF recent_tweets.rows = <<>> THEN Outcome(FALSE, <<>>, "no_recent")
        ELSE IF recent.raised THEN Outcome(TRUE, <<>>, "error")
        ELSE IF older_tweets.rows # <<>>
        THEN IF older.raised THEN Outcome(TRUE, <<>>, "error")
             ELSE Outcome(FALSE, top_emerging(emerging_topics), "compare")
        ELSE Outcome(FALSE,
                     [k \in 1..Len(top_terms) |->
                         Topic(top_terms[k].term, Rat(1, 1), top_terms[k].count)],
                     "fallback")

\* Mutant: the except clause lets the exception through.
detect_emerging_topics_reraise(df, time_window) ==
    IF emerging_guard(df) THEN Outcome(FALSE, <<>>, "guard")
    ELSE emerging_body(df, time_window)

detect_emerging_topics(df, time_window) ==
    IF emerging_guard(df) THEN Outcome(FALSE, <<>>, "guard")
    ELSE LET body == emerging_body(df, time_window)
         IN  IF body.raised THEN Outcome(FALSE, <<>>, "error") ELSE body

\* Batches: at most MaxRows rows drawn from sample messages.
MaxRows == 3
Words12 == "aid ash dam fog gas ice mud oil sea sun tide wind"
TextA == "Flood flood FLOOD rescue rescue the up 3"
TextB == "flood rescue rescue rescue relief"
TextC == Words12 \o " " \o Words12 \o " " \o Words12
TextD == "tide wind wind"

\* A row as process_tweets builds it: clean_text is the normalized text.
Row(text, created_at) ==
    [text |-> text,
     clean_text |-> IF text \in {NaN, NonString} THEN text ELSE clean_text(text),
     created_at |-> created_at]
SampleRows == {
    Row(TextA, TIME_WINDOW), Row(TextA, NaT), Row(TextB, 0),
    Row(TextC, TIME_WINDOW), Row(TextD, 0),
    Row(NaN, TIME_WINDOW), Row(NonString, 0)}
Columns == {"text", "clean_text", "created_at"}
DataFrames ==
    [columns : SUBSET Columns,
     rows : UNION {[1..n -> SampleRows] : n \in 0..MaxRows}]

EmergingInit ==
    /\ Start
    /\ sid = TRUE
    /\ punkt \in BOOLEAN
    /\ now = 2 * TIME_WINDOW
    /\ lib = [vader |-> NotCalled, textblob |-> NotCalled]
    /\ op = "detect_emerging_topics"
    /\ args \in [df : DataFrames, time_window : {TIME_WINDOW, 2 * TIME_WINDOW}]

DetectEmergingTopics ==
    /\ op = "detect_emerging_topics"
    /\ pc = "call"
    /\ pc' = "done"
    /\ LET out == detect_emerging_topics(args.df, args.time_window)
       IN  /\ ret' = [raised |-> out.raised, value |-> out.value]
           /\ aux' = [path |-> out.path]
    /\ UNCHANGED env

(***************************************************************************)
(* Field extraction and trend aggregation.  A hashtags or mentions cell is *)
(* [kind, items, value]: a list of tags (kind "list"), a string (kind      *)
(* "str"), a missing value (kind "nan") or anything else (kind "other").   *)
(***************************************************************************)
ListCell(items) == [kind |-> "list", items |-> items, value |-> ""]
StrCell(value) == [kind |-> "str", items |-> <<>>, value |-> value]
NanCell == [kind |-> "nan", items |-> <<>>, value |-> ""]
OtherCell == [kind |-> "other", items |-> <<>>, value |-> ""]

\* The end of the run of word characters that starts at position i.
WordRunEnd(s, i) ==
    CHOOSE e \in (i - 1)..Len(s) :
        /\ \A k \in i..e : IsWordChar(Char(s, k))
        /\ e = Len(s) \/ ~IsWordChar(Char(s, e + 1))

\* re.findall(r'#(\w+)', text) and re.findall(r'@(\w+)', text)
findall_marked(text, marker) ==
    LET starts == {j \in 1..(Len(text) - 1) :
                     Char(text, j) = marker /\ IsWordChar(Char(text, j + 1))}
    IN  [n \in 1..Cardinality(starts) |->
            LET j == NthSmallest(starts, n)
            IN  SubSeq(text, j + 1, WordRunEnd(text, j + 1))]

\* eval(tags) on the string a list of strings is stored as ("['a', 'b']"):
\* the list of the quoted items.  Any other string of the model is a bare
\* word, whose evaluation raises NameError.
eval(value) ==
    IF StartsAt(value, 1, "[") /\ Char(value, Len(value)) = "]"
    THEN LET quotes == {i \in 1..Len(value) : Char(value, i) = "'"}
         IN  [raised |-> FALSE,
              items |-> [n \in 1..(Cardinality(quotes) \div 2) |->
                           SubSeq(value, NthSmallest(quotes, 2 * n - 1) + 1,
                                  NthSmallest(quotes, 2 * n) - 1)]]
    ELSE [raised |-> TRUE, items |-> <<>>]

\* [tag.lower() for tag in tags if tag]: raises when a tag that is not
\* falsy is no string.
lowered_tags(tags) ==
    LET truthy == SelectSeq(tags, LAMBDA tag : tag # "" /\ tag # None)
    IN  [raised |-> \E k \in 1..Len(truthy) : truthy[k] = NonString,
         items |-> [k \in 1..Len(truthy) |-> lower(truthy[k])]]

\* What one pre-parsed cell adds to the result.
cell_tags(cell) ==
    IF cell.kind = "list" THEN lowered_tags(cell.items)
    ELSE IF cell.kind = "str"
    THEN LET eval_tags == eval(cell.value)
         IN  IF eval_tags.raised \/ lowered_tags(eval_tags.items).raised
             THEN [raised |-> FALSE, items |-> <<lower(cell.value)>>]
             ELSE lowered_tags(eval_tags.items)
    ELSE [raised |-> FALSE, items |-> <<>>]

\* Mutant: the tokens of the texts are added to the pre-parsed tags.
extract_marked_and_text(df, column, marker) ==
    LET cells == IF column \in df.columns
                 THEN SelectSeq([k \in 1..Len(df.rows) |-> df.rows[k][column]],
                                LAMBDA cell : cell.kind # "nan")
                 ELSE <<>>
        parsed == [k \in 1..Len(cells) |-> cell_tags(cells[k])]
        pre_parsed == Flatten([k \in 1..Len(parsed) |-> parsed[k].items])
        texts == DropNa([k \in 1..Len(df.rows) |-> df.rows[k].text])
    IN  IF \E k \in 1..Len(parsed) : parsed[k].raised
        THEN [raised |-> TRUE, items |-> <<>>]
        ELSE IF "text" \in df.columns
        THEN IF \E k \in 1..Len(texts) : texts[k] = NonString
             THEN [raised |-> TRUE, items |-> <<>>]
             ELSE [raised |-> FALSE,
                   items |-> pre_parsed \o Flatten([k \in 1..Len(texts) |->
                       LET tags == findall_marked(texts[k], marker)
                       IN  [n \in 1..Len(tags) |-> lower(tags[n])]])]
        ELSE [raised |-> FALSE, items |-> pre_parsed]

\* extract_hashtags and extract_mentions: [raised, items].
extract_marked(df, column, marker) ==
    LET cells == IF column \in df.columns
                 THEN SelectSeq([k \in 1..Len(df.rows) |-> df.rows[k][column]],
                                LAMBDA cell : cell.kind # "nan")
                 ELSE <<>>
        parsed == [k \in 1..Len(cells) |-> cell_tags(cells[k])]
        pre_parsed == Flatten([k \in 1..Len(parsed) |-> parsed[k].items])
        texts == DropNa([k \in 1..Len(df.rows) |-> df.rows[k].text])
    IN  IF \E k \in 1..Len(parsed) : parsed[k].raised
        THEN [raised |-> TRUE, items |-> <<>>]
        ELSE IF pre_parsed = <<>> /\ "text" \in df.columns
        THEN IF \E k \in 1..Len(texts) : texts[k] = NonString
             THEN [raised |-> TRUE, items |-> <<>>]
             ELSE [raised |-> FALSE,
                   items |-> Flatten([k \in 1..Len(texts) |->
                       LET tags == findall_marked(texts[k], marker)
                       IN  [n \in 1..Len(tags) |-> lower(tags[n])]])]
        ELSE [raised |-> FALSE, items |-> pre_parsed]

extract_hashtags(df) == extract_marked(df, "hashtags", "#")
extract_mentions(df) == extract_marked(df, "mentions", "@")

\* Mutant: phrases are built from the significant terms.
phrase_words_without_stopwords(text) == filtered_words(text)

\* [word for word in words if word.isalpha() and len(word) > 2]
phrase_words(text) ==
    SelectSeq(word_tokenize(lower(text)), LAMBDA word : isalpha(word) /\ Len(word) > 2)

RECURSIVE JoinWith(_, _)
\* sep.join(words)
JoinWith(words, sep) ==
    IF Len(words) = 0 THEN ""
    ELSE IF Len(words) = 1 THEN words[1]
    ELSE words[1] \o sep \o JoinWith(Tail(words), sep)

\* [' '.join(gram) for gram in ngrams(words, n)]
ngram_phrases(words, n) ==
    [k \in 1..(Len(words) - n + 1) |-> JoinWith(SubSeq(words, k, k + n - 1), " ")]

\* extract_phrases(df): [raised, items]; per message the bigrams, then the
\* trigrams.
extract_phrases(df) ==
    LET text_col == IF "clean_text" \in df.columns THEN "clean_text" ELSE "text"
        texts == DropNa([k \in 1..Len(df.rows) |-> df.rows[k][text_col]])
    IN  IF text_col \notin df.columns THEN [raised |-> FALSE, items |-> <<>>]
        ELSE IF \E k \in 1..Len(texts) : texts[k] = NonString \/ ~punkt
        THEN [raised |-> TRUE, items |-> <<>>]
        ELSE [raised |-> FALSE,
              items |-> Flatten([k \in 1..Len(texts) |->
                  LET filtered == phrase_words(texts[k])
                  IN  (IF Len(filtered) >= 2 THEN ngram_phrases(filtered, 2) ELSE <<>>)
                      \o (IF Len(filtered) >= 3 THEN ngram_phrases(filtered, 3) ELSE <<>>)])]

\* [-\w.]
IsHostChar(c) == IsWordChar(c) \/ c = "-" \/ c = "."

\* The length of the literal part when https?://[-\w.]+ matches at i, else 0.
HostUrlPrefix(s, i) ==
    LET n == IF StartsAt(s, i, "http://") THEN 7
             ELSE IF StartsAt(s, i, "https://") THEN 8
             ELSE 0
    IN  IF n > 0 /\ i + n <= Len(s) /\ IsHostChar(Char(s, i + n)) THEN n ELSE 0

\* The end of the run of host characters that starts at position i.
HostRunEnd(s, i) ==
    CHOOSE e \in (i - 1)..Len(s) :
        /\ \A k \in i..e : IsHostChar(Char(s, k))
        /\ e = Len(s) \/ ~IsHostChar(Char(s, e + 1))

RECURSIVE UrlsFrom(_, _)
\* The matches from position i on, leftmost first, none overlapping.
UrlsFrom(s, i) ==
    LET starts == {j \in i..Len(s) : HostUrlPrefix(s, j) > 0}
    IN  IF starts = {} THEN <<>>
        ELSE LET j == NthSmallest(starts, 1)
                 e == HostRunEnd(s, j + HostUrlPrefix(s, j))
             IN  <<SubSeq(s, j, e)>> \o UrlsFrom(s, e + 1)

\* re.findall(r'https?://(?:[-\w.]|(?:%[\da-fA-F]{2}))+', text), on texts
\* without a percent sign.
findall_urls(text) == UrlsFrom(text, 1)

\* re.search(r'https?://(?:www\.)?([^/]+)', url).group(1).lower(): the host
\* without a leading "www." that something follows.
url_domain(url) ==
    LET host == SubSeq(url, HostUrlPrefix(url, 1) + 1, Len(url))
    IN  lower(IF StartsAt(host, 1, "www.") /\ Len(host) > 4
              THEN SubSeq(host, 5, Len(host)) ELSE host)

\* extract_domains(df): [raised, items]
extract_domains(df) ==
    LET texts == DropNa([k \in 1..Len(df.rows) |-> df.rows[k].text])
    IN  IF "text" \notin df.columns THEN [raised |-> FALSE, items |-> <<>>]
        ELSE IF \E k \in 1..Len(texts) : texts[k] = NonString
        THEN [raised |-> TRUE, items |-> <<>>]
        ELSE [raised |-> FALSE,
              items |-> Flatten([k \in 1..Len(texts) |->
                  LET urls == findall_urls(texts[k])
                  IN  [n \in 1..Len(urls) |-> url_domain(urls[n])]])]

\* Mutant: the first top_n distinct values, not the most frequent ones.
top_counts_first_seen(items, top_n) == Prefix(Counter(items), top_n)

\* dict(Counter(items).most_common(top_n)): the (value, count) pairs in
\* insertion order.
top_counts(items, top_n) == most_common(Counter(items), top_n)

EmptyTrends ==
    [hashtags |-> <<>>, mentions |-> <<>>, terms |-> <<>>, phrases |-> <<>>,
     domains |-> <<>>]

\* Mutant: an extraction error reaches the caller.
analyze_trends_reraise(df, top_n) ==
    LET hashtags == extract_hashtags(df)
        mentions == extract_mentions(df)
        terms == extract_terms(df)
        phrases == extract_phrases(df)
        domains == extract_domains(df)
    IN  IF IsEmpty(df) THEN Return(EmptyTrends)
        ELSE IF hashtags.raised \/ mentions.raised \/ terms.raised
                \/ phrases.raised \/ domains.raised
        THEN [raised |-> TRUE, value |-> <<>>]
        ELSE Return([hashtags |-> top_counts(hashtags.items, top_n),
                     mentions |-> top_counts(mentions.items, top_n),
                     terms |-> top_counts(terms.terms, top_n),
                     phrases |-> top_counts(phrases.items, top_n),
                     domains |-> top_counts(domains.items, top_n)])

\* analyze_trends(df, top_n): [raised, value]
analyze_trends(df, top_n) ==
    LET hashtags == extract_hashtags(df)
        mentions == extract_mentions(df)
        terms == extract_terms(df)
        phrases == extract_phrases(df)
        domains == extract_domains(df)
    IN  IF IsEmpty(df) THEN Return(EmptyTrends)
        ELSE IF hashtags.raised \/ mentions.raised \/ terms.raised
                \/ phrases.raised \/ domains.raised
        THEN Return(EmptyTrends)
        ELSE Return([hashtags |-> top_counts(hashtags.items, top_n),
                     mentions |-> top_counts(mentions.items, top_n),
                     terms |-> top_counts(terms.terms, top_n),
                     phrases |-> top_counts(phrases.items, top_n),
                     domains |-> top_counts(domains.items, top_n)])

MaxTweets == 2
TweetA == "Flood rescue teams reach Assam #Flood #Assam @NDRF http://www.ndma.gov.in/a"
TweetB == "flood rescue teams #flood @ndrf https://t.co/x1 http://t.co"
TweetC == "the dam"

TrendRow(text, hashtags, mentions) ==
    [text |-> text,
     clean_text |-> IF text \in {NaN, NonString} THEN text ELSE clean_text(text),
     hashtags |-> hashtags,
     mentions |-> mentions]

TrendRows == {
    TrendRow(TweetA, ListCell(<<"Flood", "NDRF">>), ListCell(<<"NDRF">>)),
    TrendRow(TweetB, ListCell(<<>>), ListCell(<<>>)),
    TrendRow(TweetB, NanCell, OtherCell),
    TrendRow(TweetC, ListCell(<<"", "Relief">>), ListCell(<<"">>)),
    TrendRow(TweetA, StrCell("['Flood', 'Assam']"), StrCell("NDRF_HQ")),
    TrendRow(NaN, ListCell(<<"Flood">>), ListCell(<<>>)),
    TrendRow(NonString, ListCell(<<>>), NanCell),
    TrendRow(TweetC, ListCell(<<NonString>>), ListCell(<<"PMO">>))}

\* Frames as process_tweets builds them (all columns), and frames that lack
\* some of the columns; a frame with a text column has clean_text as well.
TrendColumns == {
    {"text", "clean_text", "hashtags", "mentions"},
    {"text", "clean_text", "hashtags"},
    {"text", "clean_text"},
    {"clean_text", "hashtags", "mentions"},
    {"hashtags", "mentions"},
    {}}

TrendFrames ==
    [columns : TrendColumns,
     rows : UNION {[1..n -> TrendRows] : n \in 0..MaxTweets}]

TopNs == {0, 2, 10}

TrendInit ==
    /\ Start
    /\ sid = TRUE
    /\ punkt \in BOOLEAN
    /\ now = 0
    /\ lib = [vader |-> NotCalled, textblob |-> NotCalled]
    /\ op = "analyze_trends"
    /\ args \in [df : TrendFrames, top_n : TopNs]

\* analyze_trends(df, top_n); aux keeps what the five extractions returned.
AnalyzeTrends ==
    /\ op = "analyze_trends"
    /\ pc = "call"
    /\ pc' = "done"
    /\ ret' = analyze_trends(args.df, args.top_n)
    /\ aux' = [hashtags |-> extract_hashtags(args.df),
               mentions |-> extract_mentions(args.df),
               terms |-> extract_terms(args.df),
               phrases |-> extract_phrases(args.df),
               domains |-> extract_domains(args.df)]
    /\ UNCHANGED env

(***************************************************************************)
(* Specifications: one per component, and Spec for all of them.            *)
(***************************************************************************)
(***************************************************************************)
(* The tweet store (src/database.py).  A batch row is [id, text,           *)
(* created_at, disaster_type]; an id is [kind, repr], str(id) its repr.    *)
(* A stored row is [tweet_id, text, created_at, disaster_type].  Times of  *)
(* the store are days.  The session autoflushes: every query first writes  *)
(* the rows added so far, so they are visible to it and their constraints  *)
(* are checked.                                                            *)
(***************************************************************************)
str(id) == id.repr

Tweet(row) ==
    [tweet_id |-> str(row.id),
     text |-> row.text,
     created_at |-> row.created_at,
     disaster_type |-> row.disaster_type]

\* flush: text is NOT NULL; tweet_id is unique among table and added rows.
flush_fails(table, added) ==
    \/ \E i \in 1..Len(added) : added[i].text = None
    \/ \E i, j \in 1..Len(added) : i < j /\ added[i].tweet_id = added[j].tweet_id
    \/ \E i \in 1..Len(added), j \in 1..Len(table) :
           added[i].tweet_id = table[j].tweet_id

\* The loop of save_tweets from row k on and the commit after it.  added are
\* the rows of this session; the database is lost at statement fail (the
\* query of row fail, or the commit when fail = Len(rows) + 1; 0 = never).
RECURSIVE save_rows(_, _, _, _, _)
save_rows(table, rows, k, added, fail) ==
    IF flush_fails(table, added) \/ fail = k
    THEN [raised |-> TRUE, added |-> added]
    ELSE IF k > Len(rows)
    THEN [raised |-> FALSE, added |-> added]
    ELSE LET tweet_id == str(rows[k].id)
             existing ==
                 \/ \E j \in 1..Len(table) : table[j].tweet_id = tweet_id
                 \/ \E j \in 1..Len(added) : added[j].tweet_id = tweet_id
         IN  IF existing
             THEN save_rows(table, rows, k + 1, added, fail)
             ELSE save_rows(table, rows, k + 1, Append(added, Tweet(rows[k])), fail)

NoSession == [opened |-> FALSE, committed |-> FALSE, rolled_back |-> FALSE,
              closed |-> FALSE]
Committed == [opened |-> TRUE, committed |-> TRUE, rolled_back |-> FALSE,
              closed |-> TRUE]
RolledBack == [opened |-> TRUE, committed |-> FALSE, rolled_back |-> TRUE,
               closed |-> TRUE]

\* Mutant: the rows added before the error stay in the table.
save_tweets_no_rollback(table, tweets_df, fail) ==
    IF tweets_df = <<>>
    THEN [value |-> 0, store |-> table, session |-> NoSession]
    ELSE LET out == save_rows(table, tweets_df, 1, <<>>, fail)
         IN  IF out.raised
             THEN [value |-> 0,
                   store |-> table \o SelectSeq(out.added, LAMBDA t : t.text # None),
                   session |-> RolledBack]
             ELSE [value |-> Len(out.added), store |-> table \o out.added,
                   session |-> Committed]

\* Mutant: the rows skipped as existing are counted too.
save_tweets_counts_skipped(table, tweets_df, fail) ==
    IF tweets_df = <<>>
    THEN [value |-> 0, store |-> table, session |-> NoSession]
    ELSE LET out == save_rows(table, tweets_df, 1, <<>>, fail)
         IN  IF out.raised
             THEN [value |-> 0, store |-> table, session |-> RolledBack]
             ELSE [value |-> Len(tweets_df), store |-> table \o out.added,
                   session |-> Committed]

save_tweets(table, tweets_df, fail) ==
    IF tweets_df = <<>>
    THEN [value |-> 0, store |-> table, session |-> NoSession]
    ELSE LET out == save_rows(table, tweets_df, 1, <<>>, fail)
         IN  IF out.raised
             THEN [value |-> 0, store |-> table, session |-> RolledBack]
             ELSE [value |-> Len(out.added), store |-> table \o out.added,
                   session |-> Committed]

\* Mutant: a row without created_at counts as old.
clear_old_tweets_null_is_old(table, days, fail) ==
    IF fail
    THEN [value |-> 0, store |-> table, session |-> RolledBack]
    ELSE LET cutoff_date == now - days
             kept == SelectSeq(table, LAMBDA t : ~(t.created_at < cutoff_date))
         IN  [value |-> Len(table) - Len(kept), store |-> kept,
              session |-> Committed]

\* DELETE ... WHERE created_at < cutoff_date: a NULL created_at compares as
\* unknown, and the row stays.
clear_old_tweets(table, days, fail) ==
    IF fail
    THEN [value |-> 0, store |-> table, session |-> RolledBack]
    ELSE LET cutoff_date == now - days
             kept == SelectSeq(table, LAMBDA t :
                         t.created_at = NaT \/ ~(t.created_at < cutoff_date))
         IN  [value |-> Len(table) - Len(kept), store |-> kept,
              session |-> Committed]

\* Batches: at most MaxBatch rows drawn from sample tweets.  The ids 1 and
\* "1" have the same str; two samples of one id differ in their content.
MaxBatch == 3
RETENTION_DAYS == 30
Today == RETENTION_DAYS + 1
IntId(repr) == [kind |-> "int", repr |-> repr]
StrId(repr) == [kind |-> "str", repr |-> repr]
BatchRow(id, text, created_at) ==
    [id |-> id, text |-> text, created_at |-> created_at,
     disaster_type |-> "Flood"]
SampleTweets == {
    BatchRow(IntId("1"), "Flood", 0), BatchRow(StrId("1"), "Rain", 1),
    BatchRow(StrId("2"), "Flood", 1), BatchRow(StrId("2"), None, 0),
    BatchRow(StrId("3"), "Rain", NaT), BatchRow(StrId("3"), "Flood", 0)}
Batches == UNION {[1..n -> SampleTweets] : n \in 0..MaxBatch}
DbOps == {"save_tweets", "clear_old_tweets"}
DbCalls ==
    [op : {"save_tweets"}, args : [tweets_df : Batches]]
    \cup [op : {"clear_old_tweets"}, args : [days : {0, RETENTION_DAYS}]]

DbInit ==
    /\ Start
    /\ sid = TRUE
    /\ punkt = TRUE
    /\ now = Today
    /\ lib = [vader |-> NotCalled, textblob |-> NotCalled]
    /\ \E call \in DbCalls : op = call.op /\ args = call.args

\* save_tweets(tweets_df); aux.before is the table when the call began.
SaveTweets ==
    /\ op = "save_tweets"
    /\ pc = "call"
    /\ pc' = "done"
    /\ \E fail \in 0..(Len(args.tweets_df) + 1) :
           LET out == save_tweets(store, args.tweets_df, fail)
           IN  /\ store' = out.store
               /\ ret' = Return(out.value)
               /\ aux' = [before |-> store, session |-> out.session]
    /\ UNCHANGED <<sid, punkt, now, lib, op, args, prev, session, uuids>>

ClearOldTweets ==
    /\ op = "clear_old_tweets"
    /\ pc = "call"
    /\ pc' = "done"
    /\ \E fail \in BOOLEAN :
           LET out == clear_old_tweets(store, args.days, fail)
           IN  /\ store' = out.store
               /\ ret' = Return(out.value)
               /\ aux' = [before |-> store, session |-> out.session]
    /\ UNCHANGED <<sid, punkt, now, lib, op, args, prev, session, uuids>>

\* The caller takes the result of a database call ...
DbReturn ==
    /\ op \in DbOps
    /\ pc = "done"
    /\ pc' = "idle"
    /\ args' = <<>>
    /\ ret' = Pending
    /\ aux' = <<>>
    /\ UNCHANGED <<sid, punkt, now, lib, op, prev, store, session, uuids>>

\* ... and later makes the next one.
DbCall ==
    /\ op \in DbOps
    /\ pc = "idle"
    /\ pc' = "call"
    /\ \E call \in DbCalls : op' = call.op /\ args' = call.args
    /\ UNCHANGED <<sid, punkt, now, lib, ret, aux, prev, store, session, uuids>>

(***************************************************************************)
(* The dashboard script (src/app.py).  One run of the script is a chain of *)
(* steps: sidebar selector, Refresh Now button, load from the database,    *)
(* first-run refresh, auto-refresh; pc is the step the run is at.  The     *)
(* session batch is a sequence of batch rows.  The limit of 1000 tweets    *)
(* and the numbers of tweets a refresh generates are scaled down.  The     *)
(* statistics, charts and database management of the page do not write the *)
(* session, and the tweets of the model are too young for any clearing.    *)
(***************************************************************************)
MaxSession == 4        \* the session limit (1000 in the source)
MaxGenerated == 6      \* ids the mock generator issues in one behavior
AllCounts == {3}       \* random.randint(30, 50), scaled
TypeCounts == {1, 2}   \* random.randint(10, 25), scaled
TWEET_TEMPLATES == {"Cyclone", "Flood"}
disaster_types == {"All"} \cup TWEET_TEMPLATES
TimeRanges == {"Last 24 hours", "All"}

\* generate_mock_tweets: count tweets with fresh ids; kinds[k] is the type
\* random.choice draws for tweet k when disaster_type is "All".
generate_mock_tweets(count, disaster_type, kinds, issued) ==
    [k \in 1..count |->
        [id |-> StrId(ToString(issued + k)),
         text |-> "Alert",
         created_at |-> now,
         disaster_type |-> IF disaster_type # "All" THEN disaster_type
                           ELSE kinds[k]]]

\* drop_duplicates(subset=['id']): the first row of every id stays.
drop_duplicates(rows) ==
    LET first(k) == \A j \in 1..(k - 1) : rows[j].id # rows[k].id
        keep == {k \in 1..Len(rows) : first(k)}
        RECURSIVE pick(_)
        pick(k) == IF k > Len(rows) THEN <<>>
                   ELSE IF k \in keep THEN <<rows[k]>> \o pick(k + 1)
                   ELSE pick(k + 1)
    IN  pick(1)

head(rows, n) == SubSeq(rows, 1, IF Len(rows) < n THEN Len(rows) ELSE n)

\* Mutant: the merged batch is not cut.
fetch_tweets_no_cap(generated, held) ==
    IF held # <<>> THEN drop_duplicates(generated \o held) ELSE generated

\* fetch_tweets: the generated tweets, followed by the batch held so far.
fetch_tweets(generated, held) ==
    IF held # <<>>
    THEN LET merged == drop_duplicates(generated \o held)
         IN  IF Len(merged) > MaxSession THEN head(merged, MaxSession)
             ELSE merged
    ELSE generated

\* ORDER BY created_at DESC of rows[1..n]; rows of equal date keep their order.
RECURSIVE order_by_created_at_desc(_, _)
order_by_created_at_desc(rows, n) ==
    IF n = 0 THEN <<>>
    ELSE LET sorted == order_by_created_at_desc(rows, n - 1)
             row == rows[n]
             before == SelectSeq(sorted, LAMBDA t : t.created_at >= row.created_at)
             after == SelectSeq(sorted, LAMBDA t : t.created_at < row.created_at)
         IN  before \o <<row>> \o after

\* get_tweets(limit, disaster_type, time_range); start is the start of the
\* time range, NaT when it has none.
get_tweets(table, limit, disaster_type, start, fail) ==
    IF fail THEN <<>>
    ELSE LET typed == IF disaster_type # "All"
                      THEN SelectSeq(table, LAMBDA t : t.disaster_type = disaster_type)
                      ELSE table
             ranged == IF start # NaT
                       THEN SelectSeq(typed, LAMBDA t :
                                t.created_at # NaT /\ t.created_at >= start
                                /\ t.created_at <= now)
                       ELSE typed
             tweets == head(order_by_created_at_desc(ranged, Len(ranged)), limit)
         IN  [k \in 1..Len(tweets) |->
                 [id |-> StrId(tweets[k].tweet_id),
                  text |-> tweets[k].text,
                  created_at |-> tweets[k].created_at,
                  disaster_type |-> tweets[k].disaster_type]]

\* Mutant: a new selection leaves the batch as it is.
select_disaster_type_keeps_batch(state, selected_disaster) ==
    IF selected_disaster # state.selected_disaster_type
    THEN [state EXCEPT !.selected_disaster_type = selected_disaster]
    ELSE state

\* The sidebar selector: a new selection clears the batch.
select_disaster_type(state, selected_disaster) ==
    IF selected_disaster # state.selected_disaster_type
    THEN [state EXCEPT !.selected_disaster_type = selected_disaster,
                       !.tweets_df = <<>>]
    ELSE state

\* refresh_data(): generate, merge, save, publish in the session, clear old.
RefreshData ==
    \E count \in (IF session.selected_disaster_type = "All" THEN AllCounts
                   ELSE TypeCounts) :
      /\ uuids + count <= MaxGenerated
      /\ \E kinds \in [1..count -> TWEET_TEMPLATES], save_fails \in {0, 1},
            clear_fails \in BOOLEAN :
           LET generated == generate_mock_tweets(
                   count, session.selected_disaster_type, kinds, uuids)
               tweets_df == fetch_tweets(generated, session.tweets_df)
               saved == save_tweets(store, tweets_df, save_fails)
               cleared == clear_old_tweets(saved.store, RETENTION_DAYS, clear_fails)
           IN  /\ uuids' = uuids + count
               /\ session' = [session EXCEPT !.tweets_df = tweets_df,
                                              !.last_refresh = TRUE]
               /\ store' = cleared.store
               /\ aux' = [generated |-> generated, held |-> session.tweets_df]

NoRefresh ==
    /\ aux' = <<>>
    /\ UNCHANGED <<store, session, uuids>>

AppInit ==
    /\ Start
    /\ sid = TRUE
    /\ punkt = TRUE
    /\ now = Today
    /\ lib = [vader |-> NotCalled, textblob |-> NotCalled]
    /\ op = "app"
    /\ args = <<>>

\* Sidebar: the disaster type selector.
Selector ==
    /\ op = "app"
    /\ pc = "call"
    /\ uuids + 1 <= MaxGenerated
    /\ pc' = "button"
    /\ \E selected_disaster \in disaster_types :
           session' = select_disaster_type(session, selected_disaster)
    /\ aux' = <<>>
    /\ UNCHANGED <<sid, punkt, now, lib, op, args, ret, prev, store, uuids>>

\* if st.button("Refresh Now"): refresh_data()
RefreshNow ==
    /\ op = "app"
    /\ pc = "button"
    /\ pc' = "load"
    /\ RefreshData \/ NoRefresh
    /\ UNCHANGED <<sid, punkt, now, lib, op, args, ret, prev>>

\* Load data from database if tweets_df is empty; time_range is what the
\* sidebar radio holds.
LoadFromDatabase ==
    /\ op = "app"
    /\ pc = "load"
    /\ pc' = "display"
    /\ IF session.tweets_df = <<>>
       THEN \E fail \in BOOLEAN, time_range \in TimeRanges :
              LET start == IF time_range = "All" THEN NaT ELSE now - 1
                  db_tweets == get_tweets(store, MaxSession,
                                   session.selected_disaster_type, start, fail)
              IN  session' = IF db_tweets # <<>>
                             THEN [session EXCEPT !.tweets_df = db_tweets,
                                                  !.last_refresh = TRUE]
                             ELSE session
       ELSE session' = session
    /\ aux' = <<>>
    /\ UNCHANGED <<sid, punkt, now, lib, op, args, ret, prev, store, uuids>>

\* Nothing to display (the filters may hide every tweet) on the first run:
\* refresh_data().
FirstRun ==
    /\ op = "app"
    /\ pc = "display"
    /\ pc' = "auto"
    /\ \E hidden \in BOOLEAN :
           IF (session.tweets_df = <<>> \/ hidden) /\ ~session.last_refresh
           THEN RefreshData
           ELSE NoRefresh
    /\ UNCHANGED <<sid, punkt, now, lib, op, args, ret, prev>>

\* Auto-refresh when the refresh rate has elapsed; then the script reruns.
AutoRefresh ==
    /\ op = "app"
    /\ pc = "auto"
    /\ pc' = "call"
    /\ \E elapsed \in BOOLEAN :
           IF session.last_refresh /\ elapsed THEN RefreshData ELSE NoRefresh
    /\ UNCHANGED <<sid, punkt, now, lib, op, args, ret, prev>>

(***************************************************************************)
(* Keyword search (src/twitter_api.py).  A keyword list is <<1, ..., n>>,  *)
(* each number standing for one keyword; a query is the sequence of the    *)
(* keywords joined with OR.  responses[b] is what the API answers to the   *)
(* query of batch b: "error" (the request raises), "none" (no data), "one" *)
(* tweet or "full" (max_results tweets).                                   *)
(***************************************************************************)
SPLIT_ABOVE == 10      \* lists longer than this are split
BATCH_SIZE == 5        \* keywords per batch and per query
MAX_KEYWORDS == 30     \* keywords beyond this are not batched
MAX_RESULTS == 25      \* tweets asked of one query
Min(a, b) == IF a < b THEN a ELSE b

\* [keywords[i:i+5] for i in range(0, min(len(keywords), 30), 5)]
keyword_batches(keywords) ==
    IF Len(keywords) > SPLIT_ABOVE
    THEN LET n == Min(Len(keywords), MAX_KEYWORDS)
         IN  [b \in 1..((n + BATCH_SIZE - 1) \div BATCH_SIZE) |->
                 SubSeq(keywords, BATCH_SIZE * (b - 1) + 1,
                        Min(BATCH_SIZE * b, Len(keywords)))]
    ELSE <<keywords>>

\* The loop over the batches from batch b on; tweets[k] is the batch whose
\* query returned tweet k, queries are the queries sent so far.
RECURSIVE search_batches(_, _, _, _, _, _)
search_batches(batches, b, tweets, queries, count, responses) ==
    IF b > Len(batches) \/ Len(tweets) >= count
    THEN [tweets |-> tweets, queries |-> queries]
    ELSE LET query == head(batches[b], BATCH_SIZE)
             max_results == Min(count - Len(tweets), MAX_RESULTS)
             data == IF responses[b] = "one" THEN 1
                     ELSE IF responses[b] = "full" THEN max_results
                     ELSE 0
         IN  search_batches(batches, b + 1,
                            tweets \o [k \in 1..data |-> b],
                            Append(queries, query), count, responses)

search_tweets(client, keywords, count, responses) ==
    IF ~client THEN [tweets |-> <<>>, queries |-> <<>>]
    ELSE search_batches(keyword_batches(keywords), 1, <<>>, <<>>, count, responses)

MaxKeywords == 12
KeywordCounts == (0..MaxKeywords) \cup {MAX_KEYWORDS, MAX_KEYWORDS + 1}
MaxQueries == MAX_KEYWORDS \div BATCH_SIZE
Responses == {"error", "none", "one", "full"}
TweetCounts == {0, 1, MAX_RESULTS + 1, 100}

SearchInit ==
    /\ Start
    /\ sid = TRUE
    /\ punkt = TRUE
    /\ now = 0
    /\ lib = [vader |-> NotCalled, textblob |-> NotCalled]
    /\ op = "search_tweets"
    /\ \E n \in KeywordCounts, count \in TweetCounts, client \in BOOLEAN :
           args = [client |-> client, keywords |-> [k \in 1..n |-> k],
                   count |-> count]

\* search_tweets(keywords, count); aux.queries are the queries it sent.
SearchTweets ==
    /\ op = "search_tweets"
    /\ pc = "call"
    /\ pc' = "done"
    /\ \E responses \in [1..MaxQueries -> Responses] :
           LET out == search_tweets(args.client, args.keywords, args.count,
                                    responses)
           IN  /\ ret' = Return(out.tweets)
               /\ aux' = [queries |-> out.queries,
                          responses |-> SubSeq(responses, 1, Len(out.queries))]
    /\ UNCHANGED env

\* The caller repeats a finished call with the same arguments (the dashboard
\* reruns its script); the clock has moved on by dt in between.
Elapsed == {0, TIME_WINDOW}
CoreOps == {"detect_emerging_topics", "analyze_trends",
            "analyze_disaster_impact", "clean_text", "clean_tweet"}
Reinvoke ==
    /\ pc = "done"
    /\ op \in CoreOps
    /\ ~prev.called
    /\ prev' = [called |-> TRUE, ret |-> ret]
    /\ pc' = "call"
    /\ ret' = Pending
    /\ aux' = <<>>
    /\ \E dt \in Elapsed : now' = now + dt
    /\ UNCHANGED <<sid, punkt, lib, op, args, store, session, uuids>>

PurityInit ==
    \/ EmergingInit /\ Len(args.df.rows) < MaxRows
    \/ TrendInit
    \/ ImpactInit
    \/ NormalizeInit

Init ==
    \/ SentimentInit
    \/ ImpactInit
    \/ EmergingInit
    \/ NormalizeInit
    \/ TrendInit
    \/ MessageInit
    \/ DbInit
    \/ AppInit
    \/ SearchInit

Next ==
    \/ AnalyzeSentiment
    \/ AnalyzeDisasterImpact
    \/ DetectEmergingTopics
    \/ CleanText
    \/ CleanTweet
    \/ AnalyzeTrends
    \/ Reinvoke
    \/ SaveTweets
    \/ ClearOldTweets
    \/ DbReturn
    \/ DbCall
    \/ Selector
    \/ RefreshNow
    \/ LoadFromDatabase
    \/ FirstRun
    \/ AutoRefresh
    \/ SearchTweets

Spec == Init /\ [][Next]_vars

SentimentSpec == SentimentInit /\ [][AnalyzeSentiment]_vars
ImpactSpec == ImpactInit /\ [][AnalyzeDisasterImpact]_vars
EmergingSpec == EmergingInit /\ [][DetectEmergingTopics]_vars
NormalizeSpec == NormalizeInit /\ [][CleanText \/ CleanTweet]_vars
TrendSpec == TrendInit /\ [][AnalyzeTrends]_vars
MessageSpec ==
    MessageInit
    /\ [][AnalyzeSentiment \/ AnalyzeDisasterImpact \/ CleanText \/ CleanTweet]_vars

PuritySpec ==
    PurityInit
    /\ [][DetectEmergingTopics \/ AnalyzeTrends \/ AnalyzeDisasterImpact
            \/ CleanText \/ CleanTweet \/ Reinvoke]_vars

DbSpec == DbInit /\ [][SaveTweets \/ ClearOldTweets \/ DbReturn \/ DbCall]_vars

SearchSpec == SearchInit /\ [][SearchTweets]_vars

AppSpec ==
    AppInit
    /\ [][Selector \/ RefreshNow \/ LoadFromDatabase \/ FirstRun \/ AutoRefresh]_vars

TypeOK == pc \in {"call", "done", "idle", "button", "load", "display", "auto"}

(***************************************************************************)
(* Sentiment claims                                                        *)
(***************************************************************************)
SentimentDone == pc = "done" /\ op = "analyze_sentiment"
\* The combined scorer ran: both sub-scorer results are in aux.
CombinedRan == SentimentDone /\ args.method = "combined" /\ ~Falsy(args.text)

\* C1: when the two sub-scorers' labels differ, the combined scorer returns
\* the label and the raw, un-averaged value of the sub-scorer whose raw value
\* has the strictly larger absolute magnitude.
C1_StrongerSignalWins ==
    (CombinedRan /\ aux.vader[1] # aux.textblob[1]) =>
        /\ Abs(aux.vader[2]) > Abs(aux.textblob[2]) => ret.value = aux.vader
        /\ Abs(aux.textblob[2]) > Abs(aux.vader[2]) => ret.value = aux.textblob

\* A negative lexicon value outweighs a positive secondary value.
C1_Witness ==
    /\ CombinedRan
    /\ aux.vader[1] = "negative" /\ aux.textblob[1] = "positive"
    /\ Abs(aux.vader[2]) > Abs(aux.textblob[2])
    /\ ret.value = aux.vader

\* C2: the lexicon scorer buckets its compound value at +/-0.05 and the
\* secondary scorer its polarity at +/-0.1; when both labels agree the
\* combined scorer returns that label with the arithmetic mean of the two
\* raw values.
C2_AgreementAverages ==
    CombinedRan =>
        /\ (sid /\ lib.vader # Raise) =>
              /\ lib.vader > VADER_THRESHOLD => aux.vader[1] = "positive"
              /\ lib.vader < -VADER_THRESHOLD => aux.vader[1] = "negative"
              /\ Abs(lib.vader) < VADER_THRESHOLD => aux.vader[1] = "neutral"
              /\ aux.vader[2] = lib.vader
        /\ lib.textblob # Raise =>
              /\ lib.textblob > TEXTBLOB_THRESHOLD => aux.textblob[1] = "positive"
              /\ lib.textblob < -TEXTBLOB_THRESHOLD => aux.textblob[1] = "negative"
              /\ Abs(lib.textblob) < TEXTBLOB_THRESHOLD => aux.textblob[1] = "neutral"
              /\ aux.textblob[2] = lib.textblob
        /\ aux.vader[1] = aux.textblob[1] =>
              /\ ret.value[1] = aux.vader[1]
              /\ 2 * ret.value[2] = aux.vader[2] + aux.textblob[2]

\* Both scorers say positive with different raw values.
C2_Witness ==
    /\ CombinedRan /\ sid
    /\ aux.vader[1] = "positive" /\ aux.textblob[1] = "positive"
    /\ aux.vader[2] # aux.textblob[2]
    /\ ret.value[1] = "positive"
    /\ 2 * ret.value[2] = aux.vader[2] + aux.textblob[2]

\* C3: whatever the text, the method and the sub-scorers' outcomes, the
\* returned score lies in [-1, 1], a positive label comes with a score > 0
\* and a negative label with a score < 0.
C3_LabelMatchesScore ==
    SentimentDone =>
        /\ ~ret.raised
        /\ ret.value[1] \in {"positive", "negative", "neutral"}
        /\ ret.value[2] \in (-One)..One
        /\ ret.value[1] = "positive" => ret.value[2] > 0
        /\ ret.value[1] = "negative" => ret.value[2] < 0

\* The secondary scorer's positive value wins over a negative lexicon value.
C3_Witness ==
    /\ CombinedRan
    /\ aux.vader[1] = "negative" /\ aux.textblob[1] = "positive"
    /\ ret.value[1] = "positive" /\ ret.value[2] > 0

\* C17: for empty or null text every method returns ("neutral", 0.0), and
\* neither sub-scorer is run, whether or not the analyzer is available.
C17_EmptyTextNeutral ==
    (SentimentDone /\ Falsy(args.text)) =>
        /\ ret = Return(<<"neutral", 0>>)
        /\ lib.vader = NotCalled /\ lib.textblob = NotCalled
        /\ aux.vader = NoResult /\ aux.textblob = NoResult

\* Null text, the lexicon method, no analyzer.
C17_Witness ==
    /\ SentimentDone
    /\ args.text = None /\ args.method = "vader" /\ ~sid
    /\ ret.value = <<"neutral", 0>>

\* The label the secondary scorer gives a polarity (0.1 itself is neutral).
SecondaryLabel(t) ==
    IF 10 * t > One THEN "positive" ELSE IF 10 * t < -One THEN "negative" ELSE "neutral"

\* C18: without analyzer, every method returns for a non-empty text the
\* secondary scorer's label and raw value (neutral and 0.0 when its call
\* fails), and does not raise.
C18_FullDelegation ==
    (SentimentDone /\ ~sid /\ ~Falsy(args.text)) =>
        /\ ~ret.raised
        /\ lib.vader = NotCalled
        /\ lib.textblob = Raise => ret.value = <<"neutral", 0>>
        /\ lib.textblob # Raise => ret.value = <<SecondaryLabel(lib.textblob), lib.textblob>>

\* The combined method without analyzer returns a neutral secondary value
\* that is not 0.
C18_Witness ==
    /\ SentimentDone /\ ~sid
    /\ args.method = "combined" /\ ~Falsy(args.text)
    /\ lib.textblob \in RawScores /\ lib.textblob # 0
    /\ ret.value = <<"neutral", lib.textblob>>

\* The fusion rule on two sub-scorer results.
Fusion(vader, textblob) ==
    IF vader[1] = textblob[1] THEN <<vader[1], (vader[2] + textblob[2]) \div 2>>
    ELSE IF Abs(vader[2]) > Abs(textblob[2]) THEN vader
    ELSE textblob

\* C19: when a sub-scorer's call raises, the combined scorer does not raise:
\* the failing sub-scorer counts as ("neutral", 0.0), the other one's result
\* is what its library call returned, the fusion rule is applied to the two,
\* and two failures give ("neutral", 0.0).
C19_FailureIsLocal ==
    (CombinedRan /\ sid /\ (lib.vader = Raise \/ lib.textblob = Raise)) =>
        /\ ~ret.raised
        /\ lib.vader = Raise => aux.vader = <<"neutral", 0>>
        /\ lib.textblob = Raise => aux.textblob = <<"neutral", 0>>
        /\ lib.vader # Raise => aux.vader[2] = lib.vader
        /\ lib.textblob # Raise =>
              aux.textblob = <<SecondaryLabel(lib.textblob), lib.textblob>>
        /\ ret.value = Fusion(aux.vader, aux.textblob)
        /\ (lib.vader = Raise /\ lib.textblob = Raise) => ret.value = <<"neutral", 0>>

\* The lexicon call fails and the secondary scorer's positive value is
\* returned.
C19_Witness ==
    /\ CombinedRan /\ sid
    /\ lib.vader = Raise /\ lib.textblob \in RawScores
    /\ ret.value = <<"positive", lib.textblob>>

\* C24: when the two sub-scorers' labels differ and their raw values have
\* the same absolute magnitude, the combined scorer returns the secondary
\* scorer's label and raw value, which is not the lexicon scorer's result;
\* a failed lexicon call with a secondary value of 0 gives the secondary
\* result as well.
C24_TieGoesToSecondary ==
    /\ (CombinedRan /\ aux.vader[1] # aux.textblob[1]
           /\ Abs(aux.vader[2]) = Abs(aux.textblob[2])) =>
          ret.value = aux.textblob /\ ret.value # aux.vader
    /\ (CombinedRan /\ sid /\ lib.vader = Raise /\ lib.textblob = 0) =>
          ret.value = aux.textblob

\* 0.08 is positive for the lexicon scorer and neutral for the secondary one.
C24_Witness ==
    /\ CombinedRan /\ sid
    /\ aux.vader = <<"positive", 16>> /\ aux.textblob = <<"neutral", 16>>
    /\ ret.value = <<"neutral", 16>>

(***************************************************************************)
(* Impact claims                                                           *)
(***************************************************************************)
ImpactDone == pc = "done" /\ op = "analyze_disaster_impact"

\* Some keyword of the list occurs in the text, ignoring case.
AnyKeyword(keywords, text) ==
    \E k \in 1..Len(keywords) : Contains(keywords[k], lower(text))

\* C4: the impact level is severe iff a severe keyword occurs in the text
\* (case-insensitive substring), moderate iff none does and a moderate one
\* occurs, minor iff neither does and a minor one occurs, and unknown iff no
\* keyword of the three sets occurs.
C4_PriorityChain ==
    ImpactDone =>
        LET severe == AnyKeyword(severe_keywords, args.text)
            moderate == AnyKeyword(moderate_keywords, args.text)
            minor == AnyKeyword(minor_keywords, args.text)
        IN  /\ ret.value = "severe" <=> severe
            /\ ret.value = "moderate" <=> (~severe /\ moderate)
            /\ ret.value = "minor" <=> (~severe /\ ~moderate /\ minor)
            /\ ret.value = "unknown" <=> (~severe /\ ~moderate /\ ~minor)

\* One severe keyword in upper case beats two moderate keywords.
C4_Witness ==
    /\ ImpactDone
    /\ ret.value = "severe"
    /\ ~Contains("severe", args.text)
    /\ KeywordCount(moderate_keywords, lower(args.text)) >= 2
    /\ KeywordCount(severe_keywords, lower(args.text)) = 1

(***************************************************************************)
(* Emerging-topic claims                                                   *)
(***************************************************************************)
DetectDone == pc = "done" /\ op = "detect_emerging_topics"

\* The messages of the batch inside and before the recent window.
RecentRows == RecentTweets(args.df, now - args.time_window).rows
BaselineRows == OlderTweets(args.df, now - args.time_window).rows

\* Every text of the batch can be tokenized.
WellFormed == punkt /\ \A k \in 1..Len(args.df.rows) : args.df.rows[k].text # NonString

\* The significant terms of a sequence of rows, read from their text.
SignificantTerms(rows) ==
    LET Present(row) == row.text # NaN /\ row.text # NonString
        texts == SelectSeq(rows, Present)
    IN  Flatten([k \in 1..Len(texts) |-> filtered_words(texts[k].text)])

TermSet(terms) == {terms[k] : k \in 1..Len(terms)}

\* growth_score > 0.5 for a term with rc occurrences in n_recent recent
\* messages and bc occurrences in n_baseline older ones: growth_score is 1.0
\* when bc = 0 and otherwise (rc/n_recent - bc/n_baseline) / (bc/n_baseline).
GrowthAboveHalf(rc, bc, n_recent, n_baseline) ==
    bc = 0 \/ 2 * (rc * n_baseline - bc * n_recent) > bc * n_recent

\* The terms with recent_count >= 3 and growth_score > 0.5.
EmergingTerms(recent, baseline, n_recent, n_baseline) ==
    {term \in TermSet(recent) :
        /\ Occurrences(recent, term) >= 3
        /\ GrowthAboveHalf(Occurrences(recent, term), Occurrences(baseline, term),
                           n_recent, n_baseline)}

ResultTerms == {ret.value[k].term : k \in 1..Len(ret.value)}

TextAndTimestamps == {"text", "created_at"} \subseteq args.df.columns

\* C5: for a batch with text and timestamps whose recent window and baseline
\* are both non-empty, every returned term has recent_count >= 3 and
\* growth_score > 0.5, and the terms meeting both conditions are returned
\* (all of them when there are at most ten).
C5_EmergingFilter ==
    (DetectDone /\ TextAndTimestamps /\ WellFormed
        /\ RecentRows # <<>> /\ BaselineRows # <<>>) =>
        LET emerging == EmergingTerms(SignificantTerms(RecentRows),
                                      SignificantTerms(BaselineRows),
                                      Len(RecentRows), Len(BaselineRows))
        IN  /\ ResultTerms \subseteq emerging
            /\ Cardinality(emerging) <= 10 => emerging \subseteq ResultTerms

\* C6: for a batch with text and timestamps with a recent message and no
\* older one, the result lists the (at most 10) most frequent significant
\* terms of the recent messages, each with score 1.0 and its recent count.
C6_FallbackTopTerms ==
    (DetectDone /\ TextAndTimestamps /\ WellFormed
        /\ RecentRows # <<>> /\ BaselineRows = <<>>) =>
        LET recent == SignificantTerms(RecentRows)
            terms == TermSet(recent)
            least == IF ret.value = <<>> THEN 0 ELSE ret.value[Len(ret.value)].count
        IN  /\ Len(ret.value) = IF Cardinality(terms) < 10 THEN Cardinality(terms) ELSE 10
            /\ \A k \in 1..Len(ret.value) :
                  /\ ret.value[k].term \in terms
                  /\ ret.value[k].score = Rat(1, 1)
                  /\ ret.value[k].count = Occurrences(recent, ret.value[k].term)
                  /\ ret.value[k].count >= least
            /\ \A term \in terms \ ResultTerms : Occurrences(recent, term) <= least

\* C7: the call never raises; it returns the empty sequence when no message
\* of the batch is inside the recent window and when an error occurs inside.
C7_EmptyOrDegraded ==
    DetectDone =>
        /\ ~ret.raised
        /\ RecentRows = <<>> => ret.value = <<>>
        /\ aux.path = "error" => ret.value = <<>>

\* A text that is not a string is met while the terms are extracted.
C7_Witness ==
    /\ DetectDone
    /\ aux.path = "error"
    /\ punkt
    /\ RecentRows # <<>>
    /\ ~ret.raised /\ ret.value = <<>>

\* The terms with exactly two recent occurrences and none in the baseline.
TwiceAndNew ==
    LET recent == SignificantTerms(RecentRows)
        baseline == SignificantTerms(BaselineRows)
    IN  {term \in TermSet(recent) :
            Occurrences(recent, term) = 2 /\ Occurrences(baseline, term) = 0}

\* C8 as stated: a term occurring exactly twice in the recent window and not
\* at all in the baseline is never returned, whatever the batch.
C8_TwiceNeverReturned ==
    (DetectDone /\ ret.value # <<>>) => TwiceAndNew \cap ResultTerms = {}

\* C8: a term occurring exactly twice in the recent window and not at all in
\* the baseline is not returned for any batch whose baseline holds at least
\* one message.
C8_TwiceExcludedWithBaseline ==
    (DetectDone /\ ret.value # <<>> /\ BaselineRows # <<>>) =>
        TwiceAndNew \cap ResultTerms = {}

\* The frequencies were compared, another term was returned and a term seen
\* twice was left out.
C8_Witness ==
    /\ DetectDone
    /\ aux.path = "compare"
    /\ ret.value # <<>>
    /\ TwiceAndNew # {}
    /\ TwiceAndNew \cap ResultTerms = {}

\* C9: the result has at most 10 entries, in order of non-increasing growth
\* score, and no term that passes the filter and is left out has a strictly
\* greater growth score than a returned term.  (Without baseline every
\* recent term passes, with growth score 1.0.)
C9_TopTenByGrowth ==
    (DetectDone /\ ret.value # <<>>) =>
        LET recent == SignificantTerms(RecentRows)
            baseline == SignificantTerms(BaselineRows)
            n_recent == Len(RecentRows)
            n_baseline == Len(BaselineRows)
            left_out == IF n_baseline = 0 THEN TermSet(recent) \ ResultTerms
                        ELSE EmergingTerms(recent, baseline, n_recent, n_baseline)
                                 \ ResultTerms
            Growth(term) ==
                IF n_baseline = 0 THEN Rat(1, 1)
                ELSE change_rate(Occurrences(recent, term), Occurrences(baseline, term),
                                 n_recent, n_baseline)
            last == ret.value[Len(ret.value)].score
        IN  /\ Len(ret.value) <= 10
            /\ \A k \in 1..(Len(ret.value) - 1) :
                  ~RLess(ret.value[k].score, ret.value[k + 1].score)
            /\ \A term \in left_out : ~RLess(last, Growth(term))

\* Eleven terms pass the filter with different scores: ten are returned, the
\* first with a greater score than the last.
C9_Witness ==
    /\ DetectDone
    /\ aux.path = "compare"
    /\ Len(ret.value) = 10
    /\ RLess(ret.value[10].score, ret.value[1].score)
    /\ Cardinality(EmergingTerms(SignificantTerms(RecentRows),
                                 SignificantTerms(BaselineRows),
                                 Len(RecentRows), Len(BaselineRows))) > 10

\* C10: a batch that has a text column is answered by the early return: the
\* result is empty and no term frequency is compared.
C10_TextColumnShortCircuits ==
    (DetectDone /\ "text" \in args.df.columns) =>
        /\ ret.value = <<>>
        /\ aux.path = "guard"

\* A batch with text, timestamps, messages on both sides of the window and a
\* term that meets both conditions of the filter.
C10_Witness ==
    /\ DetectDone
    /\ TextAndTimestamps /\ WellFormed
    /\ RecentRows # <<>> /\ BaselineRows # <<>>
    /\ ret.value = <<>>
    /\ EmergingTerms(SignificantTerms(RecentRows), SignificantTerms(BaselineRows),
                     Len(RecentRows), Len(BaselineRows)) # {}
(***************************************************************************)
(* Normalizer claims                                                       *)
(***************************************************************************)
NormalizeDone == pc = "done" /\ op \in {"clean_text", "clean_tweet"}

\* C15: normalizing a normalized text changes nothing:
\* normalize(normalize(x)) = normalize(x), for both normalizers.
C15_Idempotent == NormalizeDone => aux.again = ret.value

\* s holds a URL, an @word or a #word token.
HasToken(s) ==
    \E i \in 1..Len(s) :
        \/ UrlPrefix(s, i) > 0
        \/ i < Len(s) /\ Char(s, i) \in {"@", "#"} /\ IsWordChar(Char(s, i + 1))

\* C16: the normalizers' output is lowercase, holds no URL, no @word and no
\* #word token, neither starts nor ends with whitespace and has no two
\* whitespace characters in a row; the empty string gives the empty string.
C16_NormalForm ==
    NormalizeDone =>
        LET out == ret.value
        IN  /\ lower(out) = out
            /\ ~HasToken(out)
            /\ out # "" => ~IsSpace(Char(out, 1)) /\ ~IsSpace(Char(out, Len(out)))
            /\ \A i \in 1..(Len(out) - 1) : ~(IsSpace(Char(out, i)) /\ IsSpace(Char(out, i + 1)))
            /\ args.text = "" => out = ""

(***************************************************************************)
(* Per-message claims                                                      *)
(***************************************************************************)
ImpactLevels == {"severe", "moderate", "minor", "unknown"}
Labels == {"positive", "negative", "neutral"}

\* C22: on a missing text and on the empty text no per-message operation
\* raises: the normalizers return a string (the empty one), the scorer
\* returns a (label, score) pair and the classifier returns one of the four
\* impact levels.
C22_DegenerateTextHandled ==
    (pc = "done" /\ Falsy(args.text)) =>
        /\ ~ret.raised
        /\ op \in {"clean_text", "clean_tweet"} => ret.value = ""
        /\ op = "analyze_sentiment" => ret.value[1] \in Labels
        /\ op = "analyze_disaster_impact" => ret.value \in ImpactLevels

(***************************************************************************)
(* Trend claims                                                            *)
(***************************************************************************)
TrendsDone == pc = "done" /\ op = "analyze_trends"
Categories == {"hashtags", "mentions", "terms", "phrases", "domains"}

\* The sequence a category's extraction returned.
Extracted(category) ==
    IF category = "terms" THEN aux.terms.terms ELSE aux[category].items

ExtractionFailed == \E category \in Categories : aux[category].raised

FirstIndex(items, x) == CHOOSE k \in 1..Len(items) : items[k] = x /\ \A j \in 1..(k - 1) : items[j] # x

\* mapping holds the top_n most frequent values of items.
IsTopOf(mapping, items, top_n) ==
    LET retained == {mapping[k].term : k \in 1..Len(mapping)}
        values == {items[k] : k \in 1..Len(items)}
    IN  /\ Len(mapping) <= top_n
        /\ Cardinality(retained) = Len(mapping)
        /\ \A k \in 1..Len(mapping) :
              /\ mapping[k].term \in values
              /\ mapping[k].count = Occurrences(items, mapping[k].term)
        /\ \A k \in 1..Len(mapping) : \A x \in values \ retained :
              Occurrences(items, x) <= mapping[k].count
        /\ \A i, j \in 1..Len(mapping) : i < j =>
              \/ mapping[i].count > mapping[j].count
              \/ /\ mapping[i].count = mapping[j].count
                 /\ FirstIndex(items, mapping[i].term) < FirstIndex(items, mapping[j].term)

\* C11: each of the five mappings has at most top_n entries, gives every
\* retained value its number of occurrences in the extracted sequence,
\* retains no value with a smaller count than an omitted one, and is ordered
\* by descending count, equal counts by first appearance; when no extraction
\* failed on a non-empty batch it holds top_n values or all of them.
C11_TopNByCount ==
    TrendsDone =>
        \A category \in Categories :
            LET mapping == ret.value[category]
                items == Extracted(category)
            IN  /\ IsTopOf(mapping, items, args.top_n)
                /\ (~IsEmpty(args.df) /\ ~ExtractionFailed) =>
                      \/ Len(mapping) = args.top_n
                      \/ Len(mapping) = Cardinality({items[k] : k \in 1..Len(items)})

\* Three terms occur twice, two are retained in order of first appearance;
\* the domain seen twice is listed before the one seen first.
C11_Witness ==
    /\ TrendsDone /\ args.top_n = 2
    /\ ret.value.terms = <<[term |-> "flood", count |-> 2], [term |-> "rescue", count |-> 2]>>
    /\ Occurrences(aux.terms.terms, "teams") = 2
    /\ ret.value.domains = <<[term |-> "t.co", count |-> 2], [term |-> "ndma.gov.in", count |-> 1]>>

\* The batches of the tag claims: a text column, and in the column of the
\* pre-parsed tags only lists of strings and missing values.
ListsOnly(column) ==
    /\ TrendsDone /\ "text" \in args.df.columns
    /\ \A k \in 1..Len(args.df.rows) :
          /\ args.df.rows[k].text # NonString
          /\ args.df.rows[k][column].kind \in {"list", "nan"}
          /\ \A n \in 1..Len(args.df.rows[k][column].items) :
                args.df.rows[k][column].items[n] # NonString

Lowered(tags) == [n \in 1..Len(tags) |-> lower(tags[n])]

\* What a message contributes when the source is chosen per message.
PerMessage(row, column, marker) ==
    IF column \in args.df.columns /\ row[column].items # <<>>
    THEN Lowered(row[column].items)
    ELSE IF row.text = NaN THEN <<>>
    ELSE Lowered(findall_marked(row.text, marker))

NoEmptyTag(column) ==
    \A k \in 1..Len(args.df.rows) : \A n \in 1..Len(args.df.rows[k][column].items) :
        args.df.rows[k][column].items[n] # ""

\* C12: hashtags and mentions are taken per message: from the message's
\* pre-parsed list when it is present and not empty, otherwise from the
\* message's text, whatever the other messages of the batch carry.
C12_SourcePerMessage ==
    /\ (ListsOnly("hashtags") /\ NoEmptyTag("hashtags")) =>
          aux.hashtags.items =
              Flatten([k \in 1..Len(args.df.rows) |-> PerMessage(args.df.rows[k], "hashtags", "#")])
    /\ (ListsOnly("mentions") /\ NoEmptyTag("mentions")) =>
          aux.mentions.items =
              Flatten([k \in 1..Len(args.df.rows) |-> PerMessage(args.df.rows[k], "mentions", "@")])

\* Some pre-parsed hashtag list of the batch is not empty.
SomeHashtagList ==
    /\ ListsOnly("hashtags") /\ "hashtags" \in args.df.columns
    /\ \E k \in 1..Len(args.df.rows) : args.df.rows[k].hashtags.items # <<>>

\* C13 as stated: with a non-empty pre-parsed list in the batch, the result
\* is the lowercased entries of the lists, in message order.
C13_ListEntriesExactly ==
    SomeHashtagList =>
        aux.hashtags.items =
            Flatten([k \in 1..Len(args.df.rows) |-> Lowered(args.df.rows[k].hashtags.items)])

NonEmptyTags(row) == SelectSeq(row.hashtags.items, LAMBDA tag : tag # "")

\* C13, amended: when the pre-parsed lists hold a tag that is not the empty
\* string, the result is the lowercased non-empty tags of the lists, in
\* message order with duplicates, and nothing from the texts.
C13_NonEmptyListEntries ==
    (SomeHashtagList /\ \E k \in 1..Len(args.df.rows) : NonEmptyTags(args.df.rows[k]) # <<>>) =>
        aux.hashtags.items =
            Flatten([k \in 1..Len(args.df.rows) |-> Lowered(NonEmptyTags(args.df.rows[k]))])

\* Two messages with lists, one of them with an empty tag; the first
\* message's text holds the hashtag #Assam, which is not in its list.
C13_Witness ==
    /\ SomeHashtagList
    /\ Len(args.df.rows) = 2
    /\ args.df.rows[1].text = TweetA
    /\ args.df.rows[2].hashtags.items = <<"", "Relief">>
    /\ aux.hashtags.items = <<"flood", "ndrf", "relief">>

\* The texts the phrases are taken from.
PhraseTexts ==
    LET text_col == IF "clean_text" \in args.df.columns THEN "clean_text" ELSE "text"
    IN  IF text_col \in args.df.columns
        THEN DropNa([k \in 1..Len(args.df.rows) |-> args.df.rows[k][text_col]])
        ELSE <<>>

Windows(words, n) ==
    [k \in 1..(Len(words) - n + 1) |-> JoinWith(SubSeq(words, k, k + n - 1), " ")]

Max0(n) == IF n < 0 THEN 0 ELSE n

\* The phrases are, message by message, the 2-token and 3-token windows of
\* tokens(text), max(k-1, 0) and max(k-2, 0) of them for k tokens.
PhrasesOver(tokens(_)) ==
    LET texts == PhraseTexts
        per_message == [k \in 1..Len(texts) |->
                           Windows(tokens(texts[k]), 2) \o Windows(tokens(texts[k]), 3)]
    IN  /\ aux.phrases.items = Flatten(per_message)
        /\ \A k \in 1..Len(texts) :
              Len(per_message[k]) = Max0(Len(tokens(texts[k])) - 1)
                                    + Max0(Len(tokens(texts[k])) - 2)

\* C14 as stated: the phrases are the windows over the significant terms
\* (alphabetic, longer than 2 characters, no stopword).
C14_PhrasesOverTerms ==
    (TrendsDone /\ ~aux.phrases.raised) => PhrasesOver(filtered_words)

AlphaLongTokens(text) ==
    SelectSeq(word_tokenize(lower(text)), LAMBDA word : isalpha(word) /\ Len(word) > 2)

\* C14, amended: the phrases are the windows over the alphabetic tokens
\* longer than 2 characters, stopwords included; k such tokens give
\* max(k-1, 0) bigrams and max(k-2, 0) trigrams.
C14_PhrasesOverAlphaTokens ==
    (TrendsDone /\ ~aux.phrases.raised) => PhrasesOver(AlphaLongTokens)

\* A message with one significant term and a stopword of three letters
\* gives a phrase; a message with five tokens gives 4 bigrams and 3 trigrams.
C14_Witness ==
    /\ TrendsDone /\ ~aux.phrases.raised
    /\ Len(PhraseTexts) = 2
    /\ PhraseTexts[1] = "the dam"
    /\ aux.phrases.items[1] = "the dam"
    /\ Len(aux.phrases.items) = 8

\* C20: analyze_trends does not raise; an empty batch gives five empty
\* mappings, and so does a batch on which one of the extractions raises.
C20_NeverFails ==
    TrendsDone =>
        /\ ~ret.raised
        /\ IsEmpty(args.df) => ret.value = EmptyTrends
        /\ ExtractionFailed => ret.value = EmptyTrends

\* A tag that is no string makes the hashtag extraction raise while the term
\* extraction finds terms; the report is empty.
C20_Witness ==
    /\ TrendsDone /\ ~IsEmpty(args.df)
    /\ aux.hashtags.raised /\ ~aux.terms.raised /\ aux.terms.terms # <<>>
    /\ ret = Return(EmptyTrends)

\* A message on which an extraction raises: its text is no string, or one
\* of its pre-parsed tags is no string.
Malformed(row) ==
    \/ row.text = NonString
    \/ \E n \in 1..Len(row.hashtags.items) : row.hashtags.items[n] = NonString
    \/ \E n \in 1..Len(row.mentions.items) : row.mentions.items[n] = NonString

\* C21: a message on which extraction fails is skipped and the other
\* messages of the batch still contribute: the report of a batch is the
\* report of its well-formed messages, in their order.
C21_FailureIsolatedPerMessage ==
    (TrendsDone /\ punkt /\ args.df.columns = {"text", "clean_text", "hashtags", "mentions"}) =>
        LET well_formed == SelectSeq(args.df.rows, LAMBDA row : ~Malformed(row))
        IN  ret = analyze_trends([args.df EXCEPT !.rows = well_formed], args.top_n)


(***************************************************************************)
(* Purity claims.                                                          *)
(***************************************************************************)

\* C23: a core operation invoked twice with equal arguments returns equal
\* results, whatever happened between the two invocations.
C23_EqualArgumentsEqualResults ==
    (pc = "done" /\ prev.called) => ret = prev.ret


(***************************************************************************)
(* Store claims.                                                           *)
(***************************************************************************)
Saved == op = "save_tweets" /\ pc = "done"
Cleared == op = "clear_old_tweets" /\ pc = "done"
TweetIds(table) == {table[k].tweet_id : k \in 1..Len(table)}

\* C25: whatever save_tweets calls were made, no two stored rows share a
\* tweet_id; a save leaves the rows stored before it as they were; and a
\* save that did not fail returns the number of rows it added.
C25_UniqueUnmodifiedCounted ==
    /\ \A i, j \in 1..Len(store) :
           store[i].tweet_id = store[j].tweet_id => i = j
    /\ Saved =>
           /\ Len(store) >= Len(aux.before)
           /\ SubSeq(store, 1, Len(aux.before)) = aux.before
           /\ ~aux.session.rolled_back =>
                  ret.value = Len(store) - Len(aux.before)

\* A save of a batch that repeats a stored id and repeats a new id added
\* one row to a table that held some.
C25_Witness ==
    /\ Saved
    /\ aux.before # <<>>
    /\ ret.value = 1
    /\ \E i \in 1..Len(args.tweets_df) :
           str(args.tweets_df[i].id) \in TweetIds(aux.before)
    /\ \E i, j \in 1..Len(args.tweets_df) :
           /\ i < j
           /\ str(args.tweets_df[i].id) = str(args.tweets_df[j].id)
           /\ str(args.tweets_df[i].id) \notin TweetIds(aux.before)

\* C26: a save_tweets call in which an error occurred returns 0, has rolled
\* back and closed its session, and leaves the table as it was.
C26_AllOrNothing ==
    (Saved /\ ~aux.session.committed /\ args.tweets_df # <<>>) =>
        /\ ret.value = 0
        /\ aux.session.rolled_back
        /\ aux.session.closed
        /\ store = aux.before

\* The error came after a row of the batch had been added.
C26_Witness ==
    /\ Saved
    /\ aux.session.rolled_back
    /\ Len(args.tweets_df) > 1
    /\ args.tweets_df[1].text # None
    /\ str(args.tweets_df[1].id) \notin TweetIds(aux.before)
    /\ args.tweets_df[2].text = None

\* C27: clear_old_tweets(days) removes exactly the rows whose created_at is
\* earlier than now - days, keeps the others as they were and in order, and
\* returns the number removed; when it fails it removes nothing and returns 0.
Earlier(created_at, cutoff) == created_at # NaT /\ created_at < cutoff
Kept(table, cutoff) ==
    SelectSeq(table, LAMBDA t : ~Earlier(t.created_at, cutoff))
C27_DeletesExactlyOld ==
    Cleared =>
        IF aux.session.rolled_back
        THEN store = aux.before /\ ret.value = 0
        ELSE /\ store = Kept(aux.before, now - args.days)
             /\ ret.value = Len(aux.before) - Len(store)

\* A clear removed one row and kept a row dated at the cutoff and a row
\* without a date.
C27_Witness ==
    /\ Cleared
    /\ ret.value = 1
    /\ \E k \in 1..Len(store) : store[k].created_at = NaT
    /\ \E k \in 1..Len(store) : store[k].created_at = now - args.days

(***************************************************************************)
(* Dashboard claims.                                                       *)
(***************************************************************************)
Refreshed == op = "app" /\ aux # <<>>

\* C28: the session batch never holds more tweets than the limit and no two
\* of its tweets share an id; a refresh whose generated tweets and held
\* batch together exceed the limit keeps all generated tweets, followed by
\* the held batch without its end.
C28_SessionBatchBounded ==
    LET batch == session.tweets_df
    IN  /\ Len(batch) <= MaxSession
        /\ \A i, j \in 1..Len(batch) : batch[i].id = batch[j].id => i = j
        /\ (Refreshed /\ Len(aux.generated) + Len(aux.held) > MaxSession) =>
               batch = aux.generated
                       \o SubSeq(aux.held, 1, MaxSession - Len(aux.generated))

\* A refresh over a held batch exceeded the limit.
C28_Witness ==
    /\ Refreshed
    /\ aux.held # <<>>
    /\ Len(aux.generated) + Len(aux.held) > MaxSession
    /\ Len(session.tweets_df) = MaxSession

\* C29: while a specific disaster type is selected, every tweet of the
\* session batch has that type.
C29_BatchOfSelectedType ==
    (op = "app" /\ session.selected_disaster_type # "All") =>
        \A k \in 1..Len(session.tweets_df) :
            session.tweets_df[k].disaster_type = session.selected_disaster_type

\* A refresh for a specific type added to a held batch while the database
\* holds tweets of another type.
C29_Witness ==
    /\ Refreshed
    /\ session.selected_disaster_type = "Flood"
    /\ aux.held # <<>>
    /\ \E k \in 1..Len(store) : store[k].disaster_type = "Cyclone"

(***************************************************************************)
(* Search claims.                                                          *)
(***************************************************************************)
Searched == op = "search_tweets" /\ pc = "done" /\ args.client
Queried(keyword) ==
    \E q \in 1..Len(aux.queries), i \in 1..BATCH_SIZE :
        i <= Len(aux.queries[q]) /\ aux.queries[q][i] = keyword
CountReached == Len(ret.value) >= args.count

\* C30: for a list of at most 30 keywords every keyword is in the query of
\* some batch unless the requested count was reached before; no query has
\* more than 5 keywords; a failed query does not keep the later batches
\* from being queried; at most 6 queries are sent.
C30_EveryKeywordSearched ==
    Searched =>
        /\ Len(args.keywords) <= MAX_KEYWORDS =>
               \A k \in 1..Len(args.keywords) :
                   Queried(args.keywords[k]) \/ CountReached
        /\ \A q \in 1..Len(aux.queries) : Len(aux.queries[q]) <= BATCH_SIZE
        /\ (\E q \in 1..Len(aux.queries) : aux.responses[q] = "error") =>
               \/ Len(aux.queries) = Len(keyword_batches(args.keywords))
               \/ CountReached
        /\ Len(aux.queries) <= MaxQueries

====
